---- MODULE Spec2Model ----
(***************************************************************************)
(* Protocol v3 gateway client (package gateway, type Client): connection   *)
(* state machine, challenge handshake, request/response correlation and    *)
(* event dispatch, as a set of interleaved goroutines.  Each action is one *)
(* synchronisation point of the Go code (a critical section of c.mu or     *)
(* c.pendingMu, an atomic operation, a channel operation or a select)      *)
(* together with the goroutine-local computation that follows it.          *)
(***************************************************************************)
EXTENDS Integers, Sequences, FiniteSets, TLC

\* ---------------------------------------------------------------- bounds
MaxCalls == 2        \* concurrent Call() invocations
MaxHandshakes == 1   \* handshake goroutines (one per challenge event read)
MaxFrames == 2       \* frames the server sends before it stops or drops
MaxCloses == 2       \* successive Close() invocations of the external caller
MaxEvents == 2       \* events (other than challenges) among the frames
MaxReads == 3        \* frames the headless server sends
MaxSends == 2        \* successive SendMessage() invocations
MaxMsgs == 2         \* messages in a chat.history payload
MaxLoads == 2        \* successive loadOrCreateDevice() calls
MaxPolls == 3        \* iterations of waitReady before its deadline has passed
MaxUIEvents == 66    \* chat events the gateway hands to the UI

\* The capacity of App.events.
EventsCap == 64

Callers == 1..MaxCalls
Tasks == 1..MaxHandshakes
MaxSeq == MaxCalls + MaxHandshakes   \* identifiers that can be issued
Ids == 1..MaxSeq
Nonces == {"n1", "n2"}

\* ---------------------------------------------------------------- state
VARIABLES
  status,     \* Client.status
  conn,       \* Client.conn: "nil", or the socket, "open" or "closed"
  done,       \* Client.done is closed
  once,       \* Client.once: "fresh", "running" (f executing), "done"
  pending,    \* Client.pending: identifiers that have a slot in the table
  chan,       \* the one-place channel made for each identifier
  seq,        \* Client.seq
  cpc,        \* position of the Connect() caller
  connRet,    \* what Connect() returned
  rpc,        \* position of the readLoop goroutine
  rlFrame,    \* the frame readLoop holds between ReadMessage and dispatch
  hpc,        \* position of each handshake goroutine
  hsId,       \* request identifier of each handshake goroutine
  hsNonce,    \* nonce each handshake goroutine was started with
  kpc,        \* position of each Call() caller
  callId,     \* request identifier of each Call()
  callRet,    \* what each Call() returned
  xpc,        \* position of the external caller of Close()
  closes,     \* Close() invocations of the external caller that returned
  clpc,       \* position inside the once.Do body, per caller of Close()
  sent,       \* frames written to the socket
  evRead,     \* (event, payload) fields of the event frames read, in order
  evLog,      \* (event, payload) pairs the OnEvent handler received
  nframes,    \* frames received so far
  rlRejected  \* identifiers failed by readLoop after a read error

\* The headless backend (type ZeroClawClient).
VARIABLES
  zStatus,    \* ZeroClawClient.status
  zConn,      \* ZeroClawClient.conn: "nil", or the socket, "open" or "closed"
  zDone,      \* ZeroClawClient.done is closed
  zOnce,      \* ZeroClawClient.once: "fresh", "running", "done"
  streamBuf,  \* ZeroClawClient.streamBuf, a text (sequence of characters)
  zcpc,       \* position of the Connect() caller
  zConnRet,   \* what Connect() returned
  zrpc,       \* position of the readLoop goroutine
  zFrame,     \* the frame readLoop holds between ReadMessage and dispatch
  zxpc,       \* position of the caller of Close()
  zcloses,    \* Close() invocations that returned
  spc,        \* position of the caller of SendMessage()
  sends,      \* SendMessage() invocations that returned
  sendConn,   \* the conn SendMessage() read under the lock
  sendRet,    \* what the last SendMessage() returned
  zLog,       \* (event, payload) pairs the OnEvent handler received
  zreads,     \* frames received so far
  arrived     \* frames read since the last SendMessage() reset

\* GetHistory of the handshake backend, and the device identity.
VARIABLES
  histIn,     \* what c.Call("chat.history", ...) returned to GetHistory
  histRet,    \* what GetHistory returned
  devFile,    \* content of the identity file
  devRet,     \* what the last loadOrCreateDevice() returned
  devWrote,   \* outcome of the persist step of the last loadOrCreateDevice()
  nextKey,    \* the key pair the random source yields next
  devLog,     \* per loadOrCreateDevice() call: file read, return, persist outcome
  sigIn,      \* arguments of the last sign()
  sigRet      \* what the last sign() returned

\* The two locks of the handshake backend; the ssh tunnel; config.Load.
VARIABLES
  muHolder,         \* the task that holds Client.mu, or "none"
  pendingMuHolder,  \* the task that holds Client.pendingMu, or "none"
  lpc,              \* position of each task of the lock-level view
  tunCfg,     \* the config.SSH that tunnel.Start was given
  tpc,        \* position of the caller of tunnel.Start
  proc,       \* the ssh process: "none", "running", "exited", "killed"
  procState,  \* Cmd.ProcessState: "nil" until Wait() has set it
  portOpen,   \* the local port accepts TCP connections
  polls,      \* iterations of waitReady's loop so far
  sshStderr,  \* what ssh has written to its standard error
  exitPolls,  \* value of polls when ssh exited by itself, -1 before
  procArgs,   \* the arguments ssh was started with
  tunRet,     \* what tunnel.Start returned
  cfgFile,    \* content of the config file
  cfgEnv,     \* the environment variables
  cfgFlags,   \* the command-line flags given
  cfgRet,     \* what config.Load returned
  lockLocal,  \* locals of each task of the lock-level view
  stLog,      \* the statuses the OnStatus handler was called with, in order
  zSenders,   \* the concurrent callers of ZeroClawClient.SendMessage
  uiChan,     \* App.events, the buffered channel of chat events
  uiHanded,   \* the chat events handed to the OnEvent callback, in order
  uiSeen,     \* the chat events handleChatEvent processed, in order
  uiStreamBuf, \* App.streamBuf
  uiState,    \* App.state, and whether waitForEvent or Update is next
  uiMsg       \* the chatEventMsg on its way to Update

vars == <<status, conn, done, once, pending, chan, seq, cpc, connRet, rpc,
          rlFrame, hpc, hsId, hsNonce, kpc, callId, callRet, xpc, closes,
          clpc, sent, evRead, evLog, nframes, rlRejected,
          zStatus, zConn, zDone, zOnce, streamBuf, zcpc, zConnRet, zrpc,
          zFrame, zxpc, zcloses, spc, sends, sendConn, sendRet, zLog, zreads,
          arrived, histIn, histRet, devFile, devRet, devWrote, nextKey, devLog,
          sigIn, sigRet, muHolder, pendingMuHolder, lpc, tunCfg, tpc, proc,
          procState, portOpen, polls, sshStderr, exitPolls, procArgs, tunRet,
          cfgFile, cfgEnv, cfgFlags, cfgRet, lockLocal, stLog, zSenders,
          uiChan, uiHanded, uiSeen, uiStreamBuf, uiState, uiMsg>>

\* The state of the handshake backend, and the state of everything else.
gatewayVars == <<status, conn, done, once, pending, chan, seq, cpc, connRet,
                 rpc, rlFrame, hpc, hsId, hsNonce, kpc, callId, callRet, xpc,
                 closes, clpc, sent, evRead, evLog, nframes, rlRejected>>
zeroClawVars == <<zStatus, zConn, zDone, zOnce, streamBuf, zcpc, zConnRet,
                  zrpc, zFrame, zxpc, zcloses, spc, sends, sendConn, sendRet,
                  zLog, zreads, arrived>>
historyVars == <<histIn, histRet>>
deviceVars == <<devFile, devRet, devWrote, nextKey, devLog, sigIn, sigRet>>
lockVars == <<muHolder, pendingMuHolder, lpc, lockLocal, stLog>>
tunnelVars == <<tunCfg, tpc, proc, procState, portOpen, polls, sshStderr,
                exitPolls, procArgs, tunRet>>
configVars == <<cfgFile, cfgEnv, cfgFlags, cfgRet>>
uiVars == <<uiChan, uiHanded, uiSeen, uiStreamBuf, uiState, uiMsg>>
extraVars == <<zSenders, uiVars>>
moreVars == <<lockVars, tunnelVars, configVars, extraVars>>
libVars == <<historyVars, deviceVars, moreVars>>
restVars == <<zeroClawVars, libVars>>

clientVars == <<status, conn, done, once, pending, chan, seq>>
connectVars == <<cpc, connRet>>
readerVars == <<rpc, rlFrame, evRead, evLog, nframes, rlRejected>>
taskVars == <<hpc, hsId, hsNonce>>
callVars == <<kpc, callId, callRet>>
closeVars == <<xpc, closes, clpc>>

\* ---------------------------------------------------------------- values
StatusDisconnected == "disconnected"
StatusConnecting == "connecting"
StatusHandshaking == "handshaking"
StatusConnected == "connected"
StatusError == "error"

NoFrame == [type |-> "none"]
NoRet == [payload |-> "nil", err |-> "pending", fid |-> 0]
EmptyObject == [kind |-> "object", v |-> "{}"]

\* JSON values a frame field can hold: an object, or something that is not
\* an object (a string, a number, null, or the field is absent).
ChatPayloads == {[kind |-> "object", v |-> "p1"], [kind |-> "string", v |-> "s"]}

\* Frames the server can send.  A response identifier 0 stands for an
\* identifier no request of this client carries (unknown or not a string).
ChallengeFrames ==
  {[type |-> "event", event |-> [kind |-> "string", v |-> "connect.challenge"],
    payload |-> [kind |-> "object", v |-> n]] : n \in Nonces}
EventFrames ==
  {[type |-> "event", event |-> [kind |-> "string", v |-> "chat"], payload |-> p] :
      p \in ChatPayloads}
    \cup {[type |-> "event", event |-> [kind |-> "number", v |-> "7"],
           payload |-> [kind |-> "object", v |-> "p1"]]}
ResFrames ==
  {[type |-> "res", id |-> i, ok |-> TRUE, payload |-> p, error |-> "nil"] :
      i \in 0..MaxSeq, p \in {"hello-ok", "other"}}
    \cup {[type |-> "res", id |-> i, ok |-> FALSE, payload |-> "nil", error |-> "boom"] :
      i \in 0..MaxSeq}
OtherFrames == {[type |-> "ping"], [type |-> "not json"]}
Frames == ChallengeFrames \cup EventFrames \cup ResFrames \cup OtherFrames

\* ---------------------------------------------------------------- helpers
\* setStatus: the assignment made under c.mu.
setStatus(s) == status' = s

\* response{err: fmt.Errorf(reason)}
errResponse(reason) == [payload |-> "nil", err |-> reason, fid |-> 0]

\* A rejectAllPending that empties the table without telling the waiters.
rejectAllPending_noSend(reason) ==
  /\ pending' = {}
  /\ UNCHANGED chan

\* A rejectAllPending that fails the waiters and leaves their slots in the
\* table.
rejectAllPending_keep(reason) ==
  /\ \A i \in pending : Len(chan[i]) < 1
  /\ chan' = [i \in Ids |-> IF i \in pending
                              THEN Append(chan[i], errResponse(reason))
                              ELSE chan[i]]
  /\ UNCHANGED pending

\* rejectAllPending: under c.pendingMu, send an error into every slot of the
\* table and delete it.  A send blocks while the one-place channel is full.
rejectAllPending(reason) ==
  /\ \A i \in pending : Len(chan[i]) < 1
  /\ chan' = [i \in Ids |-> IF i \in pending
                              THEN Append(chan[i], errResponse(reason))
                              ELSE chan[i]]
  /\ pending' = {}

\* A delete that empties the whole table.
deleteSlot_all(id) == {}

\* A delete that leaves the slot in the table.
deleteSlot_keep(id) == pending

\* c.pendingMu.Lock(); delete(c.pending, id); c.pendingMu.Unlock(): the table
\* that Call leaves when it gives its slot up.
deleteSlot(id) == pending \ {id}

\* sendJSON: under c.mu, fail when c.conn is nil, else WriteMessage, which
\* fails on a closed socket and can fail on an open one (network error).
sendJSONResults == IF conn = "nil" THEN {"not connected"}
                   ELSE IF conn = "closed" THEN {"write error"}
                   ELSE {"nil", "write error"}

\* ---------------------------------------------------------------- Init
\* New: the handshake backend after construction.
ClientInit ==
  /\ status = StatusDisconnected
  /\ conn = "nil"
  /\ done = FALSE
  /\ once = "fresh"
  /\ pending = {}
  /\ chan = [i \in Ids |-> <<>>]
  /\ seq = 0
  /\ cpc = "idle"
  /\ connRet = "none"
  /\ rpc = "idle"
  /\ rlFrame = NoFrame
  /\ hpc = [h \in Tasks |-> "free"]
  /\ hsId = [h \in Tasks |-> 0]
  /\ hsNonce = [h \in Tasks |-> "none"]
  /\ kpc = [k \in Callers |-> "idle"]
  /\ callId = [k \in Callers |-> 0]
  /\ callRet = [k \in Callers |-> NoRet]
  /\ xpc = "idle"
  /\ closes = 0
  /\ clpc = [p \in {"connect", "closer"} |-> "none"]
  /\ sent = {}
  /\ evRead = <<>>
  /\ evLog = <<>>
  /\ nframes = 0
  /\ rlRejected = {}

\* NewZeroClaw: the headless backend after construction.
ZeroClawInit ==
  /\ zStatus = StatusDisconnected
  /\ zConn = "nil"
  /\ zDone = FALSE
  /\ zOnce = "fresh"
  /\ streamBuf = <<>>
  /\ zcpc = "idle"
  /\ zConnRet = "none"
  /\ zrpc = "idle"
  /\ zFrame = NoFrame
  /\ zxpc = "idle"
  /\ zcloses = 0
  /\ spc = "idle"
  /\ sends = 0
  /\ sendConn = "nil"
  /\ sendRet = "none"
  /\ zLog = <<>>
  /\ zreads = 0
  /\ arrived = <<>>

\* No GetHistory call made yet.
NoPayload == [kind |-> "none", messages |-> <<>>]
NoHistory == [messages |-> <<>>, err |-> "pending"]

HistoryInit ==
  /\ histIn = NoPayload
  /\ histRet = NoHistory

\* No loadOrCreateDevice call made yet, no identity file.  Byte strings are
\* records (what they are, of which key pair, how long); strings are strings.
NoBytes == [kind |-> "none", key |-> 0, len |-> 0]
NoIdentity ==
  [Version |-> 0, DeviceID |-> "", PublicKey |-> "", PrivateKey |-> "",
   CreatedAt |-> 0]
NoFile == [kind |-> "absent", id |-> NoIdentity]
NoSignArgs == [nonce |-> "", token |-> "", role |-> "", scopes |-> <<>>]
NoSignature == [sig |-> "", signedAt |-> 0, err |-> "pending"]

\* Key pairs of identity files found on disk; the random source yields the
\* pairs after them, each one once.
StoredKeys == {1, 2}
FirstFreshKey == Cardinality(StoredKeys) + 1

DeviceInit ==
  /\ devFile = NoFile
  /\ devRet = [id |-> NoIdentity, err |-> "pending"]
  /\ devWrote = "none"
  /\ nextKey = FirstFreshKey
  /\ devLog = <<>>
  /\ sigIn = NoSignArgs
  /\ sigRet = NoSignature

\* No task of the lock-level view has started, no lock is held.
LockTasks == {"caller", "caller2", "handshake", "reader", "closer"}
NoLocal == [id |-> 0, arg |-> "none", ret |-> "none"]
LockInit ==
  /\ muHolder = "none"
  /\ pendingMuHolder = "none"
  /\ lpc = [t \in LockTasks |-> "idle"]
  /\ lockLocal = [t \in LockTasks |-> NoLocal]
  /\ stLog = <<>>

\* tunnel.Start has not been called.
NoSSH == [Host |-> "", Port |-> 0, User |-> "", KeyPath |-> "", RemotePort |-> 0]
NoTunnel == [tunnel |-> "nil", url |-> "", err |-> "pending", stderr |-> ""]
TunnelInit ==
  /\ tunCfg = NoSSH
  /\ tpc = "idle"
  /\ proc = "none"
  /\ procState = "nil"
  /\ portOpen = FALSE
  /\ polls = 0
  /\ sshStderr = ""
  /\ exitPolls = -1
  /\ procArgs = <<>>
  /\ tunRet = NoTunnel

\* config.Load has not been called: no file, empty environment, no flags.
NoConfig ==
  [GatewayURL |-> "", Token |-> "", SessionKey |-> "", Backend |-> "",
   SSH |-> <<>>]
NoConfigFile == [kind |-> "absent", doc |-> <<>>]
NoLoad == [cfg |-> NoConfig, err |-> "pending"]
ConfigInit ==
  /\ cfgFile = NoConfigFile
  /\ cfgEnv = <<>>
  /\ cfgFlags = <<>>
  /\ cfgRet = NoLoad

\* No SendMessage() of the headless backend is running concurrently.
Senders == {"sender1", "sender2"}
NoSender == [pc |-> "idle", conn |-> "nil", ret |-> "none"]
SendersInit == zSenders = [s \in Senders |-> NoSender]

\* ui.New: the event channel is empty, the application is connecting.
UIInit ==
  /\ uiChan = <<>>
  /\ uiHanded = <<>>
  /\ uiSeen = <<>>
  /\ uiStreamBuf = <<>>
  /\ uiState = "connecting"
  /\ uiMsg = [RunID |-> 0, SessionKey |-> "", State |-> "none", Content |-> <<>>]

ExtraInit == SendersInit /\ UIInit

MoreInit == LockInit /\ TunnelInit /\ ConfigInit /\ ExtraInit

LibInit == HistoryInit /\ DeviceInit /\ MoreInit

RestInit == ZeroClawInit /\ LibInit

Init == ClientInit /\ RestInit

\* ---------------------------------------------------------------- Close
\* The caller p of Close() leaves it: Connect() then returns its timeout
\* error, the external caller may call Close() again.
closeReturn(p) ==
  /\ clpc' = [clpc EXCEPT ![p] = "none"]
  /\ IF p = "connect"
       THEN /\ cpc' = "done"
            /\ connRet' = "handshake timed out"
            /\ UNCHANGED <<xpc, closes>>
       ELSE /\ closes' = closes + 1
            /\ xpc' = IF closes + 1 < MaxCloses THEN "idle" ELSE "done"
            /\ UNCHANGED <<cpc, connRet>>

\* A Close() without the once: the body runs on every call that finds no
\* other call in it.
onceAdmits_everyCall == once # "running"

\* once.Do admits the caller whose call is the first.
onceAdmits == once = "fresh"

\* Close() is invoked by the external caller at any time, and by Connect()
\* when its deadline fires (case <-deadline: c.Close()).
closeInvocable(p) == IF p = "connect" THEN cpc = "wait" ELSE xpc = "idle"

\* c.once.Do: the first caller runs the body, starting with close(c.done);
\* a caller that arrives while the body runs waits for it to finish, and a
\* caller that arrives afterwards returns at once.
CloseEnter(p) ==
  /\ closeInvocable(p)
  /\ \/ /\ onceAdmits
        /\ once' = "running"
        /\ done' = TRUE
        /\ clpc' = [clpc EXCEPT ![p] = "conn"]
        /\ IF p = "connect"
             THEN cpc' = "closing" /\ UNCHANGED xpc
             ELSE xpc' = "closing" /\ UNCHANGED cpc
        /\ UNCHANGED <<status, conn, pending, chan, seq, connRet, closes>>
     \/ /\ ~onceAdmits
        /\ once = "done"
        /\ closeReturn(p)
        /\ UNCHANGED clientVars
  /\ UNCHANGED <<readerVars, taskVars, callVars, sent>>
  /\ UNCHANGED restVars

\* c.mu.Lock(); if c.conn != nil { c.conn.Close() }; c.mu.Unlock()
CloseConn(p) ==
  /\ clpc[p] = "conn"
  /\ conn' = IF conn # "nil" THEN "closed" ELSE conn
  /\ clpc' = [clpc EXCEPT ![p] = "status"]
  /\ UNCHANGED <<status, done, once, pending, chan, seq, connectVars,
                 readerVars, taskVars, callVars, xpc, closes, sent>>
  /\ UNCHANGED restVars

\* c.setStatus(StatusDisconnected)
CloseStatus(p) ==
  /\ clpc[p] = "status"
  /\ setStatus(StatusDisconnected)
  /\ clpc' = [clpc EXCEPT ![p] = "reject"]
  /\ UNCHANGED <<conn, done, once, pending, chan, seq, connectVars,
                 readerVars, taskVars, callVars, xpc, closes, sent>>
  /\ UNCHANGED restVars

\* c.rejectAllPending("client closed"), the end of the once.Do body, return.
CloseReject(p) ==
  /\ clpc[p] = "reject"
  /\ rejectAllPending("client closed")
  /\ once' = "done"
  /\ closeReturn(p)
  /\ UNCHANGED <<status, conn, done, seq, readerVars, taskVars, callVars,
                 sent>>
  /\ UNCHANGED restVars

Close(p) == CloseEnter(p) \/ CloseConn(p) \/ CloseStatus(p) \/ CloseReject(p)

\* ---------------------------------------------------------------- Connect
\* setStatus(StatusConnecting), then url.Parse of the configured URL.
\* Connect() is issued on a client on which Close() has not been called.
ConnectStart ==
  /\ cpc = "idle"
  /\ once = "fresh"
  /\ setStatus(StatusConnecting)
  /\ \E urlOk \in BOOLEAN :
        IF urlOk
          THEN cpc' = "dial" /\ UNCHANGED connRet
          ELSE cpc' = "done" /\ connRet' = "invalid gateway URL"
  /\ UNCHANGED <<conn, done, once, pending, chan, seq, readerVars, taskVars,
                 callVars, closeVars, sent>>
  /\ UNCHANGED restVars

\* websocket.DefaultDialer.Dial: on failure setStatus(StatusError) and
\* return; on success c.conn = conn under c.mu.
ConnectDial ==
  /\ cpc = "dial"
  /\ \/ /\ setStatus(StatusError)
        /\ cpc' = "done"
        /\ connRet' = "websocket dial"
        /\ UNCHANGED conn
     \/ /\ conn' = "open"
        /\ cpc' = "handshaking"
        /\ UNCHANGED <<status, connRet>>
  /\ UNCHANGED <<done, once, pending, chan, seq, readerVars, taskVars,
                 callVars, closeVars, sent>>
  /\ UNCHANGED restVars

\* c.setStatus(StatusHandshaking); go c.readLoop()
ConnectHandshaking ==
  /\ cpc = "handshaking"
  /\ setStatus(StatusHandshaking)
  /\ rpc' = "top"
  /\ cpc' = "wait"
  /\ UNCHANGED <<conn, done, once, pending, chan, seq, connRet, rlFrame,
                 evRead, evLog, nframes, rlRejected, taskVars, callVars,
                 closeVars, sent>>
  /\ UNCHANGED restVars

\* case <-tick.C: return nil when c.Status() is connected, the error
\* "handshake failed" when it is error, else keep waiting.  (Two reads of
\* the status; a tick that sees neither value changes nothing.)
ConnectTick ==
  /\ cpc = "wait"
  /\ status \in {StatusConnected, StatusError}
  /\ cpc' = "done"
  /\ connRet' = IF status = StatusConnected THEN "nil" ELSE "handshake failed"
  /\ UNCHANGED <<clientVars, readerVars, taskVars, callVars, closeVars, sent>>
  /\ UNCHANGED restVars

\* case <-c.done: return "client closed during connect"
ConnectClosed ==
  /\ cpc = "wait"
  /\ done
  /\ cpc' = "done"
  /\ connRet' = "client closed during connect"
  /\ UNCHANGED <<clientVars, readerVars, taskVars, callVars, closeVars, sent>>
  /\ UNCHANGED restVars

Connect ==
  \/ ConnectStart \/ ConnectDial \/ ConnectHandshaking
  \/ ConnectTick \/ ConnectClosed

\* ---------------------------------------------------------------- readLoop
\* Top of the loop: return when c.done is closed (the deferred function then
\* sees c.done closed and does nothing) or when c.conn is nil, else read.
ReadLoopTop ==
  /\ rpc = "top"
  /\ rpc' = IF done THEN "done" ELSE IF conn = "nil" THEN "defer" ELSE "read"
  /\ UNCHANGED <<clientVars, connectVars, rlFrame, evRead, evLog, nframes,
                 rlRejected, taskVars, callVars, closeVars, sent>>
  /\ UNCHANGED restVars

\* A handshake goroutine is available for the next challenge.
freeTask == \E h \in DOMAIN hpc : hpc[h] = "free"

\* The identifiers of the requests the server has received.
sentIds == {f.id : f \in sent}

\* conn.ReadMessage() returns a frame, one of the set F the server sends.
\* A response names the identifier of a request the server has received
\* (answered once, twice or late), or the unknown identifier 0.
ReadMessage(F) ==
  /\ rpc = "read"
  /\ conn = "open"
  /\ nframes < MaxFrames
  /\ \E f \in F :
        /\ f \in ChallengeFrames => freeTask
        /\ f \in EventFrames => Len(evRead) < MaxEvents
        /\ f \in ResFrames => f.id \in sentIds \cup {0}
        /\ rlFrame' = f
        /\ evRead' = IF f \in EventFrames
                       THEN Append(evRead, <<f.event, f.payload>>)
                       ELSE evRead
  /\ nframes' = nframes + 1
  /\ rpc' = "dispatch"
  /\ UNCHANGED <<clientVars, connectVars, evLog, rlRejected, taskVars,
                 callVars, closeVars, sent>>
  /\ UNCHANGED restVars

\* conn.ReadMessage() returns an error (the socket was closed by Close(), or
\* the connection dropped): select { case <-c.done: default: ... }; return
ReadError ==
  /\ rpc = "read"
  /\ rpc' = IF done THEN "done" ELSE "errSet"
  /\ UNCHANGED <<clientVars, connectVars, rlFrame, evRead, evLog, nframes,
                 rlRejected, taskVars, callVars, closeVars, sent>>
  /\ UNCHANGED restVars

\* default: c.setStatus(StatusError)
ReadErrSet ==
  /\ rpc = "errSet"
  /\ setStatus(StatusError)
  /\ rpc' = "errReject"
  /\ UNCHANGED <<conn, done, once, pending, chan, seq, connectVars, rlFrame,
                 evRead, evLog, nframes, rlRejected, taskVars, callVars,
                 closeVars, sent>>
  /\ UNCHANGED restVars

\* c.rejectAllPending("read error: ..."); return
ReadErrReject ==
  /\ rpc = "errReject"
  /\ rlRejected' = rlRejected \cup pending
  /\ rejectAllPending("read error")
  /\ rpc' = "defer"
  /\ UNCHANGED <<status, conn, done, once, seq, connectVars, rlFrame, evRead,
                 evLog, nframes, taskVars, callVars, closeVars, sent>>
  /\ UNCHANGED restVars

\* The deferred function: select { case <-c.done: default: ... }
ReadDefer ==
  /\ rpc = "defer"
  /\ rpc' = IF done THEN "done" ELSE "deferSet"
  /\ UNCHANGED <<clientVars, connectVars, rlFrame, evRead, evLog, nframes,
                 rlRejected, taskVars, callVars, closeVars, sent>>
  /\ UNCHANGED restVars

\* deferred: c.setStatus(StatusError)
ReadDeferSet ==
  /\ rpc = "deferSet"
  /\ setStatus(StatusError)
  /\ rpc' = "deferReject"
  /\ UNCHANGED <<conn, done, once, pending, chan, seq, connectVars, rlFrame,
                 evRead, evLog, nframes, rlRejected, taskVars, callVars,
                 closeVars, sent>>
  /\ UNCHANGED restVars

\* deferred: c.rejectAllPending("read loop exited")
ReadDeferReject ==
  /\ rpc = "deferReject"
  /\ rejectAllPending("read loop exited")
  /\ rpc' = "done"
  /\ UNCHANGED <<status, conn, done, once, seq, connectVars, rlFrame, evRead,
                 evLog, nframes, rlRejected, taskVars, callVars, closeVars,
                 sent>>
  /\ UNCHANGED restVars

\* A read loop that ends at a frame it cannot dispatch.
DispatchDrop_exit ==
  /\ rpc = "dispatch"
  /\ rlFrame.type \notin {"event", "res"}
  /\ rpc' = "done"
  /\ rlFrame' = NoFrame
  /\ UNCHANGED <<clientVars, connectVars, evRead, evLog, nframes, rlRejected,
                 taskVars, callVars, closeVars, sent>>
  /\ UNCHANGED restVars

\* json.Unmarshal fails (continue), or frame["type"] is neither "event" nor
\* "res": the frame is dropped and the loop goes on.
DispatchDrop ==
  /\ rpc = "dispatch"
  /\ rlFrame.type \notin {"event", "res"}
  /\ rpc' = "top"
  /\ rlFrame' = NoFrame
  /\ UNCHANGED <<clientVars, connectVars, evRead, evLog, nframes, rlRejected,
                 taskVars, callVars, closeVars, sent>>
  /\ UNCHANGED restVars

\* event, _ := frame["event"].(string)
eventName(f) == IF f.event.kind = "string" THEN f.event.v ELSE ""

\* A handleEvent that never hands the payload of the frame on.
eventPayload_dropped(f) == EmptyObject

\* payload, _ := frame["payload"].(map[string]any); nil becomes an empty map
eventPayload(f) == IF f.payload.kind = "object" THEN f.payload ELSE EmptyObject

\* What handleEvent hands to c.opts.OnEvent: a string and a map.
eventForHandler(f) == <<[kind |-> "string", v |-> eventName(f)], eventPayload(f)>>

\* handleEvent: a challenge starts a handshake goroutine with the nonce of
\* the payload; any other event goes to the OnEvent handler.
handleEvent ==
  /\ rpc = "dispatch"
  /\ rlFrame.type = "event"
  /\ IF eventName(rlFrame) = "connect.challenge"
       THEN /\ freeTask
            /\ LET h == CHOOSE t \in DOMAIN hpc :
                          hpc[t] = "free" /\ \A u \in DOMAIN hpc : hpc[u] = "free" => t <= u
               IN /\ hpc' = [hpc EXCEPT ![h] = "start"]
                  /\ hsNonce' = [hsNonce EXCEPT ![h] = eventPayload(rlFrame).v]
            /\ UNCHANGED evLog
       ELSE /\ evLog' = Append(evLog, eventForHandler(rlFrame))
            /\ UNCHANGED <<hpc, hsNonce>>
  /\ rpc' = "top"
  /\ rlFrame' = NoFrame
  /\ UNCHANGED <<clientVars, connectVars, evRead, nframes, rlRejected, hsId,
                 callVars, closeVars, sent>>
  /\ UNCHANGED restVars

\* A handleResponse that hands the response to whichever call waits.
handleResponseSlot_anyWaiter(id) ==
  IF pending # {} THEN {CHOOSE i \in pending : TRUE} ELSE {}

\* ch, ok := c.pending[id]: the slots a response with identifier id goes to.
handleResponseSlot(id) == IF id \in pending THEN {id} ELSE {}

\* The response handleResponse builds from a frame.
frameResponse(f) ==
  IF f.ok THEN [payload |-> f.payload, err |-> "nil", fid |-> f.id]
          ELSE [payload |-> "nil", err |-> f.error, fid |-> f.id]

\* handleResponse: under c.pendingMu look the identifier up and delete it;
\* then send the payload or the error into the slot found.  An identifier
\* with no slot is dropped.  (The send follows the unlock; the channel is
\* out of the table by then, so no other goroutine can send into it.)
handleResponse ==
  /\ rpc = "dispatch"
  /\ rlFrame.type = "res"
  /\ LET slots == handleResponseSlot(rlFrame.id)
     IN /\ \A i \in slots : Len(chan[i]) < 1
        /\ pending' = pending \ slots
        /\ chan' = [i \in Ids |-> IF i \in slots
                                    THEN Append(chan[i], frameResponse(rlFrame))
                                    ELSE chan[i]]
  /\ rpc' = "top"
  /\ rlFrame' = NoFrame
  /\ UNCHANGED <<status, conn, done, once, seq, connectVars, evRead, evLog,
                 nframes, rlRejected, taskVars, callVars, closeVars, sent>>
  /\ UNCHANGED restVars

readLoop(F) ==
  \/ ReadLoopTop \/ ReadMessage(F) \/ ReadError \/ ReadErrSet
  \/ ReadErrReject \/ ReadDefer \/ ReadDeferSet \/ ReadDeferReject
  \/ DispatchDrop \/ handleEvent \/ handleResponse

\* ---------------------------------------------------------------- sendHandshake
Token == "token"

\* The params of the connect request that sendHandshake(nonce) builds.
connectParams(nonce) ==
  [role |-> "operator",
   scopes |-> <<"operator.admin", "operator.approvals", "operator.pairing">>,
   auth |-> [token |-> Token],
   client |-> [id |-> "clawchat-cli", version |-> "dev", platform |-> "cli",
               mode |-> "cli"],
   minProtocol |-> 3,
   maxProtocol |-> 3]

\* A counter that stops at its first value.
nextId_stuck == IF seq = 0 THEN 1 ELSE seq

\* id := "cc-<seq.Add(1)>"; the decimal rendering is injective, so the
\* number stands for the string.
nextId == seq + 1

\* id := c.seq.Add(1); c.pending[id] = make(chan response, 1)
HandshakeRegister(h) ==
  /\ hpc[h] = "start"
  /\ seq' = nextId
  /\ hsId' = [hsId EXCEPT ![h] = nextId]
  /\ pending' = pending \cup {nextId}
  /\ hpc' = [hpc EXCEPT ![h] = "send"]
  /\ UNCHANGED <<status, conn, done, once, chan, connectVars, readerVars,
                 hsNonce, callVars, closeVars, sent>>
  /\ UNCHANGED restVars

\* c.sendJSON(frame): on failure sendHandshake returns the error (the slot
\* stays in the table) and the goroutine goes on to its error handling.
HandshakeSend(h) ==
  /\ hpc[h] = "send"
  /\ \E res \in sendJSONResults :
        IF res = "nil"
          THEN /\ sent' = sent \cup {[type |-> "req", id |-> hsId[h],
                                      method |-> "connect",
                                      params |-> connectParams(hsNonce[h])]}
               /\ hpc' = [hpc EXCEPT ![h] = "wait"]
          ELSE /\ hpc' = [hpc EXCEPT ![h] = "failed"]
               /\ UNCHANGED sent
  /\ UNCHANGED <<clientVars, connectVars, readerVars, hsId, hsNonce, callVars,
                 closeVars>>
  /\ UNCHANGED restVars

\* A sendHandshake that accepts any payload of an ok response.
handshakeStatus_anyPayload(r) ==
  IF r.err # "nil" THEN StatusError ELSE StatusConnected

\* The status sendHandshake sets for the response r to its connect request.
handshakeStatus(r) ==
  IF r.err # "nil" THEN StatusError
  ELSE IF r.payload # "hello-ok" THEN StatusError
  ELSE StatusConnected

\* case r := <-ch: rejected or not hello-ok gives setStatus(StatusError) and
\* an error return, hello-ok gives setStatus(StatusConnected).
HandshakeResponse(h) ==
  /\ hpc[h] = "wait"
  /\ chan[hsId[h]] # <<>>
  /\ LET r == Head(chan[hsId[h]])
     IN /\ setStatus(handshakeStatus(r))
        /\ hpc' = [hpc EXCEPT ![h] =
                     IF handshakeStatus(r) = StatusConnected THEN "done" ELSE "failed"]
  /\ chan' = [chan EXCEPT ![hsId[h]] = Tail(@)]
  /\ UNCHANGED <<conn, done, once, pending, seq, connectVars, readerVars,
                 hsId, hsNonce, callVars, closeVars, sent>>
  /\ UNCHANGED restVars

\* case <-time.After(c.opts.RequestTimeout): setStatus(StatusError)
HandshakeTimeout(h) ==
  /\ hpc[h] = "wait"
  /\ setStatus(StatusError)
  /\ hpc' = [hpc EXCEPT ![h] = "failed"]
  /\ UNCHANGED <<conn, done, once, pending, chan, seq, connectVars,
                 readerVars, hsId, hsNonce, callVars, closeVars, sent>>
  /\ UNCHANGED restVars

\* case <-c.done: return "client closed during handshake"
HandshakeClosed(h) ==
  /\ hpc[h] = "wait"
  /\ done
  /\ hpc' = [hpc EXCEPT ![h] = "failed"]
  /\ UNCHANGED <<clientVars, connectVars, readerVars, hsId, hsNonce, callVars,
                 closeVars, sent>>
  /\ UNCHANGED restVars

\* The goroutine started by handleEvent:
\* if err := c.sendHandshake(nonce); err != nil { c.setStatus(StatusError) }
HandshakeFailed(h) ==
  /\ hpc[h] = "failed"
  /\ setStatus(StatusError)
  /\ hpc' = [hpc EXCEPT ![h] = "done"]
  /\ UNCHANGED <<conn, done, once, pending, chan, seq, connectVars,
                 readerVars, hsId, hsNonce, callVars, closeVars, sent>>
  /\ UNCHANGED restVars

sendHandshake(h) ==
  \/ HandshakeRegister(h) \/ HandshakeSend(h) \/ HandshakeResponse(h)
  \/ HandshakeTimeout(h) \/ HandshakeClosed(h) \/ HandshakeFailed(h)

\* ---------------------------------------------------------------- Call
\* id := c.seq.Add(1); c.pending[id] = make(chan response, 1)
\* (Callers are numbered in the order in which they register.)
CallRegister(k) ==
  /\ kpc[k] = "idle"
  /\ \A j \in Callers : j < k => kpc[j] # "idle"
  /\ seq' = nextId
  /\ callId' = [callId EXCEPT ![k] = nextId]
  /\ pending' = pending \cup {nextId}
  /\ kpc' = [kpc EXCEPT ![k] = "send"]
  /\ UNCHANGED <<status, conn, done, once, chan, connectVars, readerVars,
                 taskVars, callRet, closeVars, sent>>
  /\ UNCHANGED restVars

\* c.sendJSON(frame); on failure delete(c.pending, id) and return the error.
CallSend(k) ==
  /\ kpc[k] = "send"
  /\ \E res \in sendJSONResults :
        IF res = "nil"
          THEN /\ sent' = sent \cup {[type |-> "req", id |-> callId[k],
                                      method |-> "call",
                                      params |-> [args |-> "params"]]}
               /\ kpc' = [kpc EXCEPT ![k] = "wait"]
               /\ UNCHANGED <<pending, callRet>>
          ELSE /\ pending' = deleteSlot(callId[k])
               /\ callRet' = [callRet EXCEPT ![k] = errResponse(res)]
               /\ kpc' = [kpc EXCEPT ![k] = "done"]
               /\ UNCHANGED sent
  /\ UNCHANGED <<status, conn, done, once, chan, seq, connectVars, readerVars,
                 taskVars, callId, closeVars>>
  /\ UNCHANGED restVars

\* case r := <-ch: return r.payload, r.err
CallResponse(k) ==
  /\ kpc[k] = "wait"
  /\ chan[callId[k]] # <<>>
  /\ callRet' = [callRet EXCEPT ![k] = Head(chan[callId[k]])]
  /\ chan' = [chan EXCEPT ![callId[k]] = Tail(@)]
  /\ kpc' = [kpc EXCEPT ![k] = "done"]
  /\ UNCHANGED <<status, conn, done, once, pending, seq, connectVars,
                 readerVars, taskVars, callId, closeVars, sent>>
  /\ UNCHANGED restVars

\* case <-time.After(c.opts.RequestTimeout): delete(c.pending, id)
CallTimeout(k) ==
  /\ kpc[k] = "wait"
  /\ pending' = deleteSlot(callId[k])
  /\ callRet' = [callRet EXCEPT ![k] = errResponse("timed out")]
  /\ kpc' = [kpc EXCEPT ![k] = "done"]
  /\ UNCHANGED <<status, conn, done, once, chan, seq, connectVars, readerVars,
                 taskVars, callId, closeVars, sent>>
  /\ UNCHANGED restVars

\* case <-c.done: return nil, "client closed"
CallClosed(k) ==
  /\ kpc[k] = "wait"
  /\ done
  /\ callRet' = [callRet EXCEPT ![k] = errResponse("client closed")]
  /\ kpc' = [kpc EXCEPT ![k] = "done"]
  /\ UNCHANGED <<clientVars, connectVars, readerVars, taskVars, callId,
                 closeVars, sent>>
  /\ UNCHANGED restVars

Call(k) ==
  \/ CallRegister(k) \/ CallSend(k) \/ CallResponse(k) \/ CallTimeout(k)
  \/ CallClosed(k)

\* ---------------------------------------------------------------- headless backend
\* Texts are sequences of characters; a frame field is a string or is not
\* one (absent, a number, an object).
ZcTokens == {<<"a">>, <<"b">>}
ChunkFrames ==
  {[type |-> "chunk", content |-> [kind |-> "string", v |-> t]] : t \in ZcTokens}
    \cup {[type |-> "chunk", content |-> [kind |-> "absent", v |-> <<>>]]}
DoneFrames ==
  {[type |-> "done", full_response |-> x] :
      x \in {[kind |-> "string", v |-> <<"F">>], [kind |-> "string", v |-> <<>>],
             [kind |-> "absent", v |-> <<>>]}}
ErrorFrames == {[type |-> "error", message |-> [kind |-> "string", v |-> <<"e">>]]}
ToolFrames ==
  {[type |-> "tool_call", name |-> [kind |-> "string", v |-> <<"t">>]],
   [type |-> "tool_result"]}
ZcFrames ==
  ChunkFrames \cup DoneFrames \cup ErrorFrames \cup ToolFrames \cup OtherFrames

\* x, _ := frame[key].(string)
stringOf(x) == IF x.kind = "string" THEN x.v ELSE <<>>

\* z.onEvent("chat", {state, message: {content}, runId: "zc-local"})
chatEvent(state, content) ==
  <<"chat", [state |-> state, message |-> [content |-> content],
             runId |-> "zc-local"]>>

\* z.onEvent("chat", {state: "error", errorMessage, runId: "zc-local"})
chatError(msg) ==
  <<"chat", [state |-> "error", errorMessage |-> msg, runId |-> "zc-local"]>>

\* z.setStatus: the assignment made under z.mu.
zSetStatus(s) == zStatus' = s

\* Connect(): setStatus(StatusConnecting), then url.Parse; on failure
\* setStatus(StatusError) and return the error.
ZeroClawConnectStart ==
  /\ zcpc = "idle"
  /\ zOnce = "fresh"
  /\ zStatus' = StatusConnecting
  /\ zcpc' = "parse"
  /\ UNCHANGED <<zConn, zDone, zOnce, streamBuf, zConnRet, zrpc, zFrame, zxpc,
                 zcloses, spc, sends, sendConn, sendRet, zLog, zreads, arrived>>
  /\ UNCHANGED <<gatewayVars, libVars>>

ZeroClawConnectParse ==
  /\ zcpc = "parse"
  /\ \E urlOk \in BOOLEAN :
        IF urlOk
          THEN zcpc' = "dial" /\ UNCHANGED <<zStatus, zConnRet>>
          ELSE /\ zSetStatus(StatusError)
               /\ zcpc' = "done"
               /\ zConnRet' = "invalid URL"
  /\ UNCHANGED <<zConn, zDone, zOnce, streamBuf, zrpc, zFrame, zxpc, zcloses,
                 spc, sends, sendConn, sendRet, zLog, zreads, arrived>>
  /\ UNCHANGED <<gatewayVars, libVars>>

\* Dial: on failure setStatus(StatusError) and return; on success
\* z.conn = conn under z.mu.
ZeroClawConnectDial ==
  /\ zcpc = "dial"
  /\ \/ /\ zSetStatus(StatusError)
        /\ zcpc' = "done"
        /\ zConnRet' = "dial"
        /\ UNCHANGED zConn
     \/ /\ zConn' = "open"
        /\ zcpc' = "connected"
        /\ UNCHANGED <<zStatus, zConnRet>>
  /\ UNCHANGED <<zDone, zOnce, streamBuf, zrpc, zFrame, zxpc, zcloses, spc,
                 sends, sendConn, sendRet, zLog, zreads, arrived>>
  /\ UNCHANGED <<gatewayVars, libVars>>

\* z.setStatus(StatusConnected); go z.readLoop(); return nil
ZeroClawConnectConnected ==
  /\ zcpc = "connected"
  /\ zSetStatus(StatusConnected)
  /\ zrpc' = "top"
  /\ zcpc' = "done"
  /\ zConnRet' = "nil"
  /\ UNCHANGED <<zConn, zDone, zOnce, streamBuf, zFrame, zxpc, zcloses, spc,
                 sends, sendConn, sendRet, zLog, zreads, arrived>>
  /\ UNCHANGED <<gatewayVars, libVars>>

ZeroClawConnect ==
  \/ ZeroClawConnectStart \/ ZeroClawConnectParse \/ ZeroClawConnectDial
  \/ ZeroClawConnectConnected

\* Close(): z.once.Do; the first caller runs the body, starting with
\* close(z.done); a later call returns at once.
ZeroClawCloseEnter ==
  /\ zxpc = "idle"
  /\ zcloses < MaxCloses
  /\ IF zOnce = "fresh"
       THEN /\ zOnce' = "running"
            /\ zDone' = TRUE
            /\ zxpc' = "conn"
            /\ UNCHANGED zcloses
       ELSE /\ zOnce = "done"
            /\ zcloses' = zcloses + 1
            /\ UNCHANGED <<zOnce, zDone, zxpc>>
  /\ UNCHANGED <<zStatus, zConn, streamBuf, zcpc, zConnRet, zrpc, zFrame, spc,
                 sends, sendConn, sendRet, zLog, zreads, arrived>>
  /\ UNCHANGED <<gatewayVars, libVars>>

\* z.mu.Lock(); if z.conn != nil { z.conn.Close() }; z.mu.Unlock()
ZeroClawCloseConn ==
  /\ zxpc = "conn"
  /\ zConn' = IF zConn # "nil" THEN "closed" ELSE zConn
  /\ zxpc' = "status"
  /\ UNCHANGED <<zStatus, zDone, zOnce, streamBuf, zcpc, zConnRet, zrpc,
                 zFrame, zcloses, spc, sends, sendConn, sendRet, zLog, zreads,
                 arrived>>
  /\ UNCHANGED <<gatewayVars, libVars>>

\* z.setStatus(StatusDisconnected), the end of the once.Do body, return.
ZeroClawCloseStatus ==
  /\ zxpc = "status"
  /\ zSetStatus(StatusDisconnected)
  /\ zOnce' = "done"
  /\ zcloses' = zcloses + 1
  /\ zxpc' = "idle"
  /\ UNCHANGED <<zConn, zDone, streamBuf, zcpc, zConnRet, zrpc, zFrame, spc,
                 sends, sendConn, sendRet, zLog, zreads, arrived>>
  /\ UNCHANGED <<gatewayVars, libVars>>

ZeroClawClose == ZeroClawCloseEnter \/ ZeroClawCloseConn \/ ZeroClawCloseStatus

\* SendMessage(): under z.mu read z.conn and reset the accumulator.
SendMessageReset ==
  /\ spc = "idle"
  /\ sends < MaxSends
  /\ sendConn' = zConn
  /\ streamBuf' = <<>>
  /\ arrived' = <<>>
  /\ spc' = "write"
  /\ UNCHANGED <<zStatus, zConn, zDone, zOnce, zcpc, zConnRet, zrpc, zFrame,
                 zxpc, zcloses, sends, sendRet, zLog, zreads>>
  /\ UNCHANGED <<gatewayVars, libVars>>

\* if conn == nil: "not connected"; else conn.WriteMessage, which fails on a
\* closed socket and can fail on an open one.
SendMessageWrite ==
  /\ spc = "write"
  /\ sendRet' \in IF sendConn = "nil" THEN {"not connected"}
                  ELSE IF zConn = "closed" THEN {"send error"}
                  ELSE {"zc-local", "send error"}
  /\ sends' = sends + 1
  /\ spc' = "idle"
  /\ UNCHANGED <<zStatus, zConn, zDone, zOnce, streamBuf, zcpc, zConnRet, zrpc,
                 zFrame, zxpc, zcloses, sendConn, zLog, zreads, arrived>>
  /\ UNCHANGED <<gatewayVars, libVars>>

SendMessage == SendMessageReset \/ SendMessageWrite

\* readLoop, top of the loop: return when z.done is closed or z.conn is nil.
ZeroClawReadLoopTop ==
  /\ zrpc = "top"
  /\ zrpc' = IF zDone THEN "done" ELSE IF zConn = "nil" THEN "defer" ELSE "read"
  /\ UNCHANGED <<zStatus, zConn, zDone, zOnce, streamBuf, zcpc, zConnRet,
                 zFrame, zxpc, zcloses, spc, sends, sendConn, sendRet, zLog,
                 zreads, arrived>>
  /\ UNCHANGED <<gatewayVars, libVars>>

\* conn.ReadMessage() returns a frame, one of the set F the server sends.
ZeroClawReadMessage(F) ==
  /\ zrpc = "read"
  /\ zConn = "open"
  /\ zreads < MaxReads
  /\ \E f \in F : zFrame' = f
  /\ zreads' = zreads + 1
  /\ zrpc' = "dispatch"
  /\ UNCHANGED <<zStatus, zConn, zDone, zOnce, streamBuf, zcpc, zConnRet, zxpc,
                 zcloses, spc, sends, sendConn, sendRet, zLog, arrived>>
  /\ UNCHANGED <<gatewayVars, libVars>>

\* conn.ReadMessage() returns an error:
\* select { case <-z.done: default: z.setStatus(StatusError) }; return
ZeroClawReadError ==
  /\ zrpc = "read"
  /\ zrpc' = IF zDone THEN "done" ELSE "errSet"
  /\ UNCHANGED <<zStatus, zConn, zDone, zOnce, streamBuf, zcpc, zConnRet,
                 zFrame, zxpc, zcloses, spc, sends, sendConn, sendRet, zLog,
                 zreads, arrived>>
  /\ UNCHANGED <<gatewayVars, libVars>>

ZeroClawReadErrSet ==
  /\ zrpc = "errSet"
  /\ zSetStatus(StatusError)
  /\ zrpc' = "defer"
  /\ UNCHANGED <<zConn, zDone, zOnce, streamBuf, zcpc, zConnRet, zFrame, zxpc,
                 zcloses, spc, sends, sendConn, sendRet, zLog, zreads, arrived>>
  /\ UNCHANGED <<gatewayVars, libVars>>

\* The deferred function: select { case <-z.done: default: ... }
ZeroClawReadDefer ==
  /\ zrpc = "defer"
  /\ zrpc' = IF zDone THEN "done" ELSE "deferSet"
  /\ UNCHANGED <<zStatus, zConn, zDone, zOnce, streamBuf, zcpc, zConnRet,
                 zFrame, zxpc, zcloses, spc, sends, sendConn, sendRet, zLog,
                 zreads, arrived>>
  /\ UNCHANGED <<gatewayVars, libVars>>

\* deferred: z.setStatus(StatusError)
ZeroClawReadDeferSet ==
  /\ zrpc = "deferSet"
  /\ zSetStatus(StatusError)
  /\ zrpc' = "done"
  /\ UNCHANGED <<zConn, zDone, zOnce, streamBuf, zcpc, zConnRet, zFrame, zxpc,
                 zcloses, spc, sends, sendConn, sendRet, zLog, zreads, arrived>>
  /\ UNCHANGED <<gatewayVars, libVars>>

\* json.Unmarshal fails: continue, the frame never reaches dispatchFrame.
ZeroClawUnmarshalFails ==
  /\ zrpc = "dispatch"
  /\ zFrame.type = "not json"
  /\ arrived' = Append(arrived, zFrame)
  /\ zrpc' = "top"
  /\ zFrame' = NoFrame
  /\ UNCHANGED <<zStatus, zConn, zDone, zOnce, streamBuf, zcpc, zConnRet, zxpc,
                 zcloses, spc, sends, sendConn, sendRet, zLog, zreads>>
  /\ UNCHANGED <<gatewayVars, libVars>>

\* A chunk that emits the token alone.
chunkText_tokenOnly(buf, token) == token

\* case "chunk": z.streamBuf += token
chunkText(buf, token) == buf \o token

\* A done that always takes the frame's full_response.
finalText_fullOnly(buf, full) == full

\* case "done": fullResponse, or z.streamBuf when fullResponse == ""
finalText(buf, full) == IF full = <<>> THEN buf ELSE full

\* case "tool_call": fmt.Sprintf("[calling %s...]", name)
toolNote(name) == <<"[calling ">> \o name \o <<"...]">>

\* A dispatchFrame whose tool_result leaves z.streamBuf as it is.
dispatchBuf_keepNote(f) ==
  CASE f.type = "chunk" -> chunkText(streamBuf, stringOf(f.content))
    [] f.type \in {"done", "error"} -> <<>>
    [] f.type = "tool_call" -> toolNote(stringOf(f.name))
    [] OTHER -> streamBuf

\* What dispatchFrame leaves in z.streamBuf for frame f.
dispatchBuf(f) ==
  CASE f.type = "chunk" -> chunkText(streamBuf, stringOf(f.content))
    [] f.type \in {"done", "error", "tool_result"} -> <<>>
    [] f.type = "tool_call" -> toolNote(stringOf(f.name))
    [] OTHER -> streamBuf

\* The events dispatchFrame hands to z.onEvent for frame f.
dispatchEvents(f) ==
  CASE f.type = "chunk" ->
         <<chatEvent("delta", chunkText(streamBuf, stringOf(f.content)))>>
    [] f.type = "done" ->
         <<chatEvent("final", finalText(streamBuf, stringOf(f.full_response)))>>
    [] f.type = "error" -> <<chatError(stringOf(f.message))>>
    [] f.type = "tool_call" -> <<chatEvent("delta", toolNote(stringOf(f.name)))>>
    [] OTHER -> <<>>

\* dispatchFrame, with an event handler registered: the update of
\* z.streamBuf under z.mu and the call of z.onEvent with what was computed.
dispatchFrame ==
  /\ zrpc = "dispatch"
  /\ zFrame.type # "not json"
  /\ streamBuf' = dispatchBuf(zFrame)
  /\ zLog' = zLog \o dispatchEvents(zFrame)
  /\ arrived' = Append(arrived, zFrame)
  /\ zrpc' = "top"
  /\ zFrame' = NoFrame
  /\ UNCHANGED <<zStatus, zConn, zDone, zOnce, zcpc, zConnRet, zxpc, zcloses,
                 spc, sends, sendConn, sendRet, zreads>>
  /\ UNCHANGED <<gatewayVars, libVars>>

ZeroClawReadLoop(F) ==
  \/ ZeroClawReadLoopTop \/ ZeroClawReadMessage(F) \/ ZeroClawReadError
  \/ ZeroClawReadErrSet \/ ZeroClawReadDefer \/ ZeroClawReadDeferSet
  \/ ZeroClawUnmarshalFails \/ dispatchFrame

\* The headless life cycle: Connect(), Close(), SendMessage() and the read
\* loop, against a server that streams one token and garbage.
HeadlessFrames ==
  {[type |-> "chunk", content |-> [kind |-> "string", v |-> <<"a">>]],
   [type |-> "not json"]}

HeadlessNext ==
  \/ ZeroClawConnect \/ ZeroClawClose \/ SendMessage
  \/ ZeroClawReadLoop(HeadlessFrames)

HeadlessSpec == Init /\ [][HeadlessNext]_vars

\* Streaming: Connect() has returned nil; SendMessage() and the read loop run
\* against a server that can send any frame.
zeroClawConnected ==
  /\ zStatus = StatusConnected
  /\ zConn = "open"
  /\ zDone = FALSE
  /\ zOnce = "fresh"
  /\ streamBuf = <<>>
  /\ zcpc = "done"
  /\ zConnRet = "nil"
  /\ zrpc = "read"
  /\ zFrame = NoFrame
  /\ zxpc = "idle"
  /\ zcloses = 0
  /\ spc = "idle"
  /\ sends = 0
  /\ sendConn = "nil"
  /\ sendRet = "none"
  /\ zLog = <<>>
  /\ zreads = 0
  /\ arrived = <<>>

StreamInit == ClientInit /\ zeroClawConnected /\ LibInit

StreamNext ==
  \/ SendMessage
  \/ ZeroClawReadLoopTop \/ ZeroClawReadMessage(ZcFrames) \/ ZeroClawReadError
  \/ ZeroClawReadErrSet \/ ZeroClawReadDefer \/ ZeroClawReadDeferSet
  \/ ZeroClawUnmarshalFails \/ dispatchFrame

StreamSpec == StreamInit /\ [][StreamNext]_vars

\* ---------------------------------------------------------------- senders
\* SendMessage() called from several tasks at once, with Close().  Each
\* sender s keeps its position, its copy of z.conn and what it returned in
\* zSenders[s]; `sends` counts the invocations that have returned.
sendersRest == <<gatewayVars, historyVars, deviceVars, lockVars, tunnelVars,
                 configVars, uiVars>>

\* z.mu.Lock(); conn := z.conn; z.streamBuf = ""; z.mu.Unlock()
SenderReset(s) ==
  /\ zSenders[s].pc = "idle"
  /\ sends + Cardinality({o \in Senders : zSenders[o].pc # "idle"}) < MaxSends
  /\ zSenders' = [zSenders EXCEPT ![s] = [pc |-> "checked", conn |-> zConn,
                                          ret |-> "none"]]
  /\ streamBuf' = <<>>
  /\ arrived' = <<>>
  /\ UNCHANGED <<zStatus, zConn, zDone, zOnce, zcpc, zConnRet, zrpc, zFrame,
                 zxpc, zcloses, spc, sends, sendConn, sendRet, zLog, zreads>>
  /\ UNCHANGED sendersRest

\* if conn == nil { return "not connected" }; otherwise conn.WriteMessage is
\* entered, with no lock held.
SenderWrite(s) ==
  /\ zSenders[s].pc = "checked"
  /\ IF zSenders[s].conn = "nil"
       THEN /\ zSenders' = [zSenders EXCEPT ![s].pc = "idle",
                                            ![s].ret = "not connected"]
            /\ sends' = sends + 1
       ELSE /\ zSenders' = [zSenders EXCEPT ![s].pc = "writing"]
            /\ UNCHANGED sends
  /\ UNCHANGED <<zStatus, zConn, zDone, zOnce, streamBuf, zcpc, zConnRet, zrpc,
                 zFrame, zxpc, zcloses, spc, sendConn, sendRet, zLog, zreads,
                 arrived>>
  /\ UNCHANGED sendersRest

\* conn.WriteMessage returns: it fails on a closed socket and can fail on an
\* open one.
SenderWritten(s) ==
  /\ zSenders[s].pc = "writing"
  /\ \E r \in IF zConn = "closed" THEN {"send error"}
              ELSE {"zc-local", "send error"} :
        zSenders' = [zSenders EXCEPT ![s].pc = "idle", ![s].ret = r]
  /\ sends' = sends + 1
  /\ UNCHANGED <<zStatus, zConn, zDone, zOnce, streamBuf, zcpc, zConnRet, zrpc,
                 zFrame, zxpc, zcloses, spc, sendConn, sendRet, zLog, zreads,
                 arrived>>
  /\ UNCHANGED sendersRest

SendInit == ClientInit /\ zeroClawConnected /\ LibInit

SendNext ==
  \/ \E s \in Senders : SenderReset(s) \/ SenderWrite(s) \/ SenderWritten(s)
  \/ ZeroClawClose

SendSpec == SendInit /\ [][SendNext]_vars

\* ---------------------------------------------------------------- GetHistory
\* The messages of a chat.history payload.  A content is a string, a
\* sequence of blocks, or something else; a block is an object with or
\* without a string text field, or is not an object.
HistRoles == {"user", "assistant", "tool", "system"}
HistBlocks ==
  <<[kind |-> "object", text |-> [kind |-> "string", v |-> <<"a">>]],
    [kind |-> "object", text |-> [kind |-> "absent", v |-> <<>>]],
    [kind |-> "string", text |-> [kind |-> "absent", v |-> <<>>]],
    [kind |-> "object", text |-> [kind |-> "string", v |-> <<"b">>]]>>
HistContents ==
  {[kind |-> "string", v |-> <<"h", "i">>, blocks |-> <<>>],
   [kind |-> "string", v |-> <<>>, blocks |-> <<>>],
   [kind |-> "blocks", v |-> <<>>, blocks |-> HistBlocks],
   [kind |-> "blocks", v |-> <<>>, blocks |-> SubSeq(HistBlocks, 2, 3)],
   [kind |-> "other", v |-> <<>>, blocks |-> <<>>]}
HistStamps ==
  {[kind |-> "number", v |-> "1700000000000"],
   [kind |-> "string", v |-> "2024-01-01T00:00:00Z"],
   [kind |-> "string", v |-> "yesterday"]}
HistMessages ==
  [role : HistRoles, content : HistContents, timestamp : HistStamps]

\* What c.Call returned: an error, a payload that does not decode into the
\* result struct (messages is not an array, a role is not a string), or a
\* payload with a sequence of messages.
HistPayloads ==
  {[kind |-> "error", messages |-> <<>>], [kind |-> "malformed", messages |-> <<>>]}
    \cup {[kind |-> "ok", messages |-> m] :
            m \in UNION {[1..n -> HistMessages] : n \in 0..MaxMsgs}}

\* extractContent, case []any: the text fields of the blocks, concatenated.
RECURSIVE blocksText(_)
blocksText(bs) ==
  IF bs = <<>> THEN <<>>
  ELSE (IF Head(bs).kind = "object" /\ Head(bs).text.kind = "string"
          THEN Head(bs).text.v ELSE <<>>) \o blocksText(Tail(bs))

\* extractContent
extractContent(c) ==
  CASE c.kind = "string" -> c.v
    [] c.kind = "blocks" -> blocksText(c.blocks)
    [] OTHER -> <<>>

\* The zero time.Time.
ZeroTime == [from |-> "zero", at |-> ""]

\* switch ts := m.Timestamp.(type): a number is Unix milliseconds, a string
\* is parsed as RFC 3339, anything else leaves the zero time.
messageTime(ts) ==
  CASE ts.kind = "number" -> [from |-> "unixMilli", at |-> ts.v]
    [] ts.kind = "string" /\ ts.v = "2024-01-01T00:00:00Z" ->
         [from |-> "rfc3339", at |-> ts.v]
    [] OTHER -> ZeroTime

\* A GetHistory that keeps the messages of every role.
keepsRole_all(role) == TRUE

\* m.Role != "user" && m.Role != "assistant": continue
keepsRole(role) == role \in {"user", "assistant"}

\* A loop of GetHistory that keeps the messages whose content is empty.
RECURSIVE historyMessages_keepEmpty(_)
historyMessages_keepEmpty(ms) ==
  IF ms = <<>> THEN <<>>
  ELSE LET m == Head(ms)
       IN (IF keepsRole(m.role)
             THEN <<[Role |-> m.role, Content |-> extractContent(m.content),
                     Timestamp |-> messageTime(m.timestamp)]>>
             ELSE <<>>) \o historyMessages_keepEmpty(Tail(ms))

\* The loop of GetHistory over result.Messages.
RECURSIVE historyMessages(_)
historyMessages(ms) ==
  IF ms = <<>> THEN <<>>
  ELSE LET m == Head(ms)
           content == extractContent(m.content)
       IN (IF keepsRole(m.role) /\ content # <<>>
             THEN <<[Role |-> m.role, Content |-> content,
                     Timestamp |-> messageTime(m.timestamp)]>>
             ELSE <<>>) \o historyMessages(Tail(ms))

\* GetHistory: the error of the Call, the error of the decoding, or the
\* messages kept.
GetHistory ==
  /\ histRet = NoHistory
  /\ histIn # NoPayload
  /\ histRet' =
       CASE histIn.kind = "error" -> [messages |-> <<>>, err |-> "chat.history"]
         [] histIn.kind = "malformed" -> [messages |-> <<>>, err |-> "parsing history"]
         [] OTHER -> [messages |-> historyMessages(histIn.messages), err |-> "nil"]
  /\ UNCHANGED <<histIn, gatewayVars, zeroClawVars, deviceVars, moreVars>>

HistorySpecInit ==
  /\ ClientInit /\ ZeroClawInit /\ DeviceInit /\ MoreInit
  /\ histIn \in HistPayloads
  /\ histRet = NoHistory

HistoryNext == GetHistory

HistorySpec == HistorySpecInit /\ [][HistoryNext]_vars

\* ---------------------------------------------------------------- UI events
\* The path of a chat event from the gateway client to the UI: the OnEvent
\* callback registered by connectCmd, the buffered channel App.events,
\* waitForEvent and the chatEventMsg case of Update with handleChatEvent.
\* The gateway sends runs of RunLen events to the session of the UI: deltas
\* with a text, then a final without one.
RunLen == 3
UISession == "main"

\* The payload of the k-th chat event of the gateway.
uiPayload(k) ==
  [runId |-> (k - 1) \div RunLen + 1,
   sessionKey |-> UISession,
   state |-> IF k % RunLen = 0 THEN "final" ELSE "delta",
   content |-> IF k % RunLen = 0
                 THEN [kind |-> "other", v |-> <<>>, blocks |-> <<>>]
                 ELSE [kind |-> "string", v |-> <<"t", k>>, blocks |-> <<>>]]

\* gateway.ParseChatEvent
ParseChatEvent(payload) ==
  [RunID |-> payload.runId, SessionKey |-> payload.sessionKey,
   State |-> payload.state, Content |-> extractContent(payload.content)]

NoChatEvent == [RunID |-> 0, SessionKey |-> "", State |-> "none", Content |-> <<>>]

uiRest == <<gatewayVars, zeroClawVars, historyVars, deviceVars, lockVars,
            tunnelVars, configVars, zSenders>>

\* OnEvent("chat", payload): ev := ParseChatEvent(payload) and
\* select { case events <- ev: default: }, a send that is skipped when the
\* channel is full.
UIOnEvent ==
  /\ Len(uiHanded) < MaxUIEvents
  /\ LET ev == ParseChatEvent(uiPayload(Len(uiHanded) + 1))
     IN /\ uiHanded' = Append(uiHanded, ev)
        /\ uiChan' = IF Len(uiChan) < EventsCap THEN Append(uiChan, ev) ELSE uiChan
  /\ UNCHANGED <<uiMsg, uiSeen, uiStreamBuf, uiState>>
  /\ UNCHANGED uiRest

\* Update, case connectDoneMsg: a.state = stateChat and the first
\* waitForEvent(a.events) is started.
UIConnectDone ==
  /\ uiState = "connecting"
  /\ uiState' = "waiting"
  /\ UNCHANGED <<uiChan, uiHanded, uiMsg, uiSeen, uiStreamBuf>>
  /\ UNCHANGED uiRest

\* waitForEvent: return chatEventMsg(<-ch)
UIWaitForEvent ==
  /\ uiState = "waiting"
  /\ uiChan # <<>>
  /\ uiMsg' = Head(uiChan)
  /\ uiChan' = Tail(uiChan)
  /\ uiState' = "update"
  /\ UNCHANGED <<uiHanded, uiSeen, uiStreamBuf>>
  /\ UNCHANGED uiRest

\* handleChatEvent: what it leaves in a.streamBuf.
handleChatEvent(ev) ==
  IF ev.SessionKey # "" /\ ev.SessionKey # UISession THEN uiStreamBuf
  ELSE CASE ev.State = "delta" -> ev.Content
         [] ev.State \in {"final", "error"} -> <<>>
         [] OTHER -> uiStreamBuf

\* Update, case chatEventMsg: a.handleChatEvent(ev) and the next
\* waitForEvent(a.events).
UIUpdate ==
  /\ uiState = "update"
  /\ uiStreamBuf' = handleChatEvent(uiMsg)
  /\ uiSeen' = Append(uiSeen, uiMsg)
  /\ uiMsg' = NoChatEvent
  /\ uiState' = "waiting"
  /\ UNCHANGED <<uiChan, uiHanded>>
  /\ UNCHANGED uiRest

UISpecInit ==
  /\ ClientInit /\ ZeroClawInit /\ HistoryInit /\ DeviceInit
  /\ LockInit /\ TunnelInit /\ ConfigInit /\ ExtraInit

UINext == UIOnEvent \/ UIConnectDone \/ UIWaitForEvent \/ UIUpdate

UISpec == UISpecInit /\ [][UINext]_vars

\* ---------------------------------------------------------------- device identity
\* ed25519 key material: a public key has 32 bytes, a private key 64; a
\* truncated key has fewer.
KeyIds == 1..(Cardinality(StoredKeys) + MaxLoads)
pubKeyOf(k) == [kind |-> "pub", key |-> k, len |-> 32]
privKeyOf(k) == [kind |-> "priv", key |-> k, len |-> 64]
truncated(b) == [b EXCEPT !.len = 5]
KeyBytes ==
  {pubKeyOf(k) : k \in KeyIds} \cup {privKeyOf(k) : k \in KeyIds}
    \cup {truncated(pubKeyOf(k)) : k \in KeyIds}
    \cup {truncated(privKeyOf(k)) : k \in KeyIds}

\* base64.RawURLEncoding.EncodeToString
base64URLEncode(b) ==
  IF b.len = 0 THEN ""
  ELSE "b64(" \o b.kind \o ToString(b.key) \o "/" \o ToString(b.len) \o ")"

\* base64.RawURLEncoding.DecodeString: the bytes, or an error for a string
\* that is no encoding.
base64URLDecode(s) ==
  IF s = "" THEN [ok |-> TRUE, bytes |-> NoBytes]
  ELSE IF \E b \in KeyBytes : base64URLEncode(b) = s
    THEN [ok |-> TRUE, bytes |-> CHOOSE b \in KeyBytes : base64URLEncode(b) = s]
  ELSE [ok |-> FALSE, bytes |-> NoBytes]

\* deviceIDFromPubKey: the hex SHA-256 of the bytes (taken as injective).
deviceIDFromPubKey(b) ==
  "sha256(" \o b.kind \o ToString(b.key) \o "/" \o ToString(b.len) \o ")"

\* The identity files loadOrCreateDevice can find: none, one that is not
\* JSON, an intact identity, and identities damaged in one field.
storedIdentity(k) ==
  [Version |-> 1,
   DeviceID |-> deviceIDFromPubKey(pubKeyOf(k)),
   PublicKey |-> base64URLEncode(pubKeyOf(k)),
   PrivateKey |-> base64URLEncode(privKeyOf(k)),
   CreatedAt |-> 100]
StoredIdentities ==
  {storedIdentity(1),
   [storedIdentity(1) EXCEPT !.Version = 2],
   [storedIdentity(1) EXCEPT !.DeviceID = ""],
   [storedIdentity(1) EXCEPT !.DeviceID = deviceIDFromPubKey(pubKeyOf(2))],
   [storedIdentity(1) EXCEPT !.PublicKey = "not base64!"],
   [storedIdentity(1) EXCEPT !.PublicKey = base64URLEncode(truncated(pubKeyOf(1)))],
   [storedIdentity(1) EXCEPT
      !.PublicKey = base64URLEncode(truncated(pubKeyOf(1))),
      !.DeviceID = deviceIDFromPubKey(truncated(pubKeyOf(1)))],
   [storedIdentity(1) EXCEPT !.PrivateKey = "not base64!"],
   [storedIdentity(1) EXCEPT !.PrivateKey = base64URLEncode(truncated(privKeyOf(1)))],
   [storedIdentity(1) EXCEPT !.PrivateKey = base64URLEncode(privKeyOf(2))]}
GarbageFile == [kind |-> "garbage", id |-> NoIdentity]
StoredFiles ==
  {NoFile, GarbageFile} \cup {[kind |-> "json", id |-> i] : i \in StoredIdentities}

\* time.Now().UnixMilli(), in small numbers
Times == {101, 102}

\* A load that never finds a stored identity.
storedIdentityValid_never(f) == FALSE

\* A load that accepts whatever identity the file holds.
storedIdentityValid_unchecked(f) == f.kind = "json"

\* The file was read, is JSON of version 1 with a deviceId, its public key
\* decodes, and the deviceId is the hash of the decoded public key.
storedIdentityValid(f) ==
  /\ f.kind = "json"
  /\ f.id.Version = 1
  /\ f.id.DeviceID # ""
  /\ base64URLDecode(f.id.PublicKey).ok
  /\ deviceIDFromPubKey(base64URLDecode(f.id.PublicKey).bytes) = f.id.DeviceID

\* The identity built from the key pair k generated at time t.
newIdentity(k, t) ==
  [Version |-> 1,
   DeviceID |-> deviceIDFromPubKey(pubKeyOf(k)),
   PublicKey |-> base64URLEncode(pubKeyOf(k)),
   PrivateKey |-> base64URLEncode(privKeyOf(k)),
   CreatedAt |-> t]

\* loadOrCreateDevice: return the stored identity when it is valid; else
\* generate a key pair (which can fail), build the identity, try to persist
\* it (MkdirAll, WriteFile; their errors are dropped; a failed write can
\* leave a damaged file) and return it with a nil error.
loadOrCreateDevice ==
  /\ Len(devLog) < MaxLoads
  /\ sigIn' = NoSignArgs
  /\ sigRet' = NoSignature
  /\ IF storedIdentityValid(devFile)
       THEN /\ devRet' = [id |-> devFile.id, err |-> "nil"]
            /\ devWrote' = "none"
            /\ UNCHANGED <<devFile, nextKey>>
       ELSE \/ /\ devRet' = [id |-> NoIdentity, err |-> "generating key pair"]
               /\ devWrote' = "none"
               /\ UNCHANGED <<devFile, nextKey>>
            \/ \E t \in Times :
                 LET id == newIdentity(nextKey, t)
                 IN /\ nextKey' = nextKey + 1
                    /\ devRet' = [id |-> id, err |-> "nil"]
                    /\ \/ /\ devWrote' = "ok"
                          /\ devFile' = [kind |-> "json", id |-> id]
                       \/ /\ devWrote' = "mkdir failed"
                          /\ UNCHANGED devFile
                       \/ /\ devWrote' = "write failed"
                          /\ devFile' \in {devFile, GarbageFile}
  /\ devLog' = Append(devLog, [read |-> devFile, ret |-> devRet', wrote |-> devWrote'])
  /\ UNCHANGED <<gatewayVars, zeroClawVars, historyVars, moreVars>>

\* strings.Join(elems, sep)
RECURSIVE stringsJoin(_, _)
stringsJoin(elems, sep) ==
  IF elems = <<>> THEN ""
  ELSE IF Len(elems) = 1 THEN elems[1]
  ELSE elems[1] \o sep \o stringsJoin(Tail(elems), sep)

\* The payload sign() builds for the identity id.
signPayload(id, a, signedAtMs) ==
  stringsJoin(<<"v2", id.DeviceID, "cli", "cli", a.role,
                stringsJoin(a.scopes, ","), ToString(signedAtMs), a.token,
                a.nonce>>, "|")

\* ed25519.Sign(privKey, message): the signature of the message under the
\* key pair the private key belongs to (ed25519 signatures are deterministic).
ed25519Sign(priv, message) ==
  "b64(sig" \o ToString(priv.key) \o ":" \o message \o ")"

SignArgs ==
  [nonce : {"n1", "n2"}, token : {"token", ""}, role : {"operator"},
   scopes : {<<>>, <<"operator.read", "operator.write">>}]

\* sign: decode the private key (error when it does not decode), take the
\* time, build the payload and sign it; ed25519.Sign panics on a private key
\* that has not 64 bytes.
sign ==
  /\ devRet.err = "nil"
  /\ sigRet = NoSignature
  /\ \E a \in SignArgs, t \in Times :
       LET priv == base64URLDecode(devRet.id.PrivateKey)
       IN /\ sigIn' = a
          /\ sigRet' =
               IF ~priv.ok
                 THEN [sig |-> "", signedAt |-> 0, err |-> "decoding private key"]
               ELSE IF priv.bytes.len # 64
                 THEN [sig |-> "", signedAt |-> 0, err |-> "panic"]
               ELSE [sig |-> ed25519Sign(priv.bytes, signPayload(devRet.id, a, t)),
                     signedAt |-> t, err |-> "nil"]
  /\ UNCHANGED <<devFile, devRet, devWrote, nextKey, devLog>>
  /\ UNCHANGED <<gatewayVars, zeroClawVars, historyVars, moreVars>>

DeviceSpecInit ==
  /\ ClientInit /\ ZeroClawInit /\ HistoryInit /\ MoreInit
  /\ devFile \in StoredFiles
  /\ devRet = [id |-> NoIdentity, err |-> "pending"]
  /\ devWrote = "none"
  /\ nextKey = FirstFreshKey
  /\ devLog = <<>>
  /\ sigIn = NoSignArgs
  /\ sigRet = NoSignature

DeviceNext == loadOrCreateDevice \/ sign

DeviceSpec == DeviceSpecInit /\ [][DeviceNext]_vars

\* ---------------------------------------------------------------- Spec
\* The handshake life cycle: Connect(), Close(), the read loop and the
\* handshake goroutines, against a server that can send any frame.
Next ==
  \/ Connect
  \/ \E p \in {"connect", "closer"} : Close(p)
  \/ readLoop(Frames)
  \/ \E h \in Tasks : sendHandshake(h)

Spec == Init /\ [][Next]_vars

\* Request/response correlation.  Call() is issued either on a client that
\* was never connected (c.conn is nil), or on one whose Connect() has
\* returned nil: the state Spec reaches when the server sends the challenge
\* and answers the connect request cc-1 with hello-ok (connectedClient
\* below).  From there the read loop, concurrent Call()s and Close() run
\* against a server that sends responses and garbage.
connectedClient ==
  /\ status = StatusConnected
  /\ conn = "open"
  /\ done = FALSE
  /\ once = "fresh"
  /\ pending = {}
  /\ chan = [i \in Ids |-> <<>>]
  /\ seq = 1
  /\ cpc = "done"
  /\ connRet = "nil"
  /\ rpc = "read"
  /\ rlFrame = NoFrame
  /\ hpc = [h \in Tasks |-> IF h = 1 THEN "done" ELSE "free"]
  /\ hsId = [h \in Tasks |-> IF h = 1 THEN 1 ELSE 0]
  /\ hsNonce = [h \in Tasks |-> IF h = 1 THEN "n1" ELSE "none"]
  /\ kpc = [k \in Callers |-> "idle"]
  /\ callId = [k \in Callers |-> 0]
  /\ callRet = [k \in Callers |-> NoRet]
  /\ xpc = "idle"
  /\ closes = 0
  /\ clpc = [p \in {"connect", "closer"} |-> "none"]
  /\ sent = {[type |-> "req", id |-> 1, method |-> "connect",
              params |-> connectParams("n1")]}
  /\ evRead = <<>>
  /\ evLog = <<>>
  /\ rlRejected = {}

CallInit ==
  \/ Init
  \/ connectedClient /\ nframes = 0 /\ RestInit

CallNext ==
  \/ Close("closer")
  \/ ReadLoopTop \/ ReadMessage(ResFrames \cup OtherFrames) \/ ReadError
  \/ ReadErrSet \/ ReadErrReject \/ ReadDefer \/ ReadDeferSet
  \/ ReadDeferReject \/ DispatchDrop \/ handleResponse
  \/ \E k \in Callers : Call(k)

CallSpec == CallInit /\ [][CallNext]_vars

\* The two read loops side by side, each on a connected client, against
\* servers that send events, responses, tokens and garbage.
DropInit == connectedClient /\ nframes = 0 /\ zeroClawConnected /\ LibInit

DropNext ==
  \/ readLoop(EventFrames \cup ResFrames \cup OtherFrames)
  \/ ZeroClawReadLoop(HeadlessFrames \cup OtherFrames)

DropSpec == DropInit /\ [][DropNext]_vars

\* Identifier generation.  Connect() has dialled, set handshaking and
\* started the read loop, and waits; the server sends challenges and
\* answers nothing while callers invoke Call().
handshakingClient ==
  /\ status = StatusHandshaking
  /\ conn = "open"
  /\ done = FALSE
  /\ once = "fresh"
  /\ pending = {}
  /\ chan = [i \in Ids |-> <<>>]
  /\ seq = 0
  /\ cpc = "wait"
  /\ connRet = "none"
  /\ rpc = "read"
  /\ rlFrame = NoFrame
  /\ hpc = [h \in Tasks |-> "free"]
  /\ hsId = [h \in Tasks |-> 0]
  /\ hsNonce = [h \in Tasks |-> "none"]
  /\ kpc = [k \in Callers |-> "idle"]
  /\ callId = [k \in Callers |-> 0]
  /\ callRet = [k \in Callers |-> NoRet]
  /\ xpc = "idle"
  /\ closes = 0
  /\ clpc = [p \in {"connect", "closer"} |-> "none"]
  /\ sent = {}
  /\ evRead = <<>>
  /\ evLog = <<>>
  /\ nframes = 0
  /\ rlRejected = {}

IdInit == handshakingClient /\ RestInit

IdNext ==
  \/ ReadLoopTop \/ ReadMessage(ChallengeFrames) \/ handleEvent
  \/ \E h \in Tasks :
       \/ HandshakeRegister(h) \/ HandshakeSend(h) \/ HandshakeTimeout(h)
       \/ HandshakeFailed(h)
  \/ \E k \in Callers : CallRegister(k) \/ CallSend(k) \/ CallTimeout(k)

IdSpec == IdInit /\ [][IdNext]_vars

\* ---------------------------------------------------------------- locks
\* The handshake backend seen at the level of its two locks: Call()
\* invocations and the handshake goroutine (both with their sendJSON), the
\* read loop (handleResponse, and setStatus and rejectAllPending after a read
\* error and in the deferred function) and Close().  Lock() is a step that
\* waits for the lock to be free; the steps that follow run with the lock
\* held until the Unlock().  setStatus is entered at "statusLock" with its
\* argument and the position to return to in lockLocal.
LockCallers == {"caller", "caller2"}
LockWriters == LockCallers \cup {"handshake"}

lockRest == <<connectVars, rpc, evRead, evLog, rlRejected, taskVars,
              callVars, closeVars>>
lockOthers == <<zeroClawVars, historyVars, deviceVars, tunnelVars, configVars,
                extraVars>>

\* t moves from position from to position to.
lockGoto(t, from, to) ==
  /\ lpc[t] = from
  /\ lpc' = [lpc EXCEPT ![t] = to]

\* t enters setStatus(s) and will go on at position ret.
lockCallSetStatus(t, s, ret) ==
  /\ lpc' = [lpc EXCEPT ![t] = "statusLock"]
  /\ lockLocal' = [lockLocal EXCEPT ![t].arg = s, ![t].ret = ret]

\* c.pendingMu.Lock() by t
pendingMuLock(t, from, to) ==
  /\ lockGoto(t, from, to)
  /\ pendingMuHolder = "none"
  /\ pendingMuHolder' = t
  /\ UNCHANGED <<muHolder, lockLocal, stLog, clientVars, sent, nframes>>
  /\ UNCHANGED <<rlFrame, lockRest, lockOthers>>

\* A c.mu.Lock() that does not wait for the lock to be free.
muLock_noWait(t, from, to) ==
  /\ lockGoto(t, from, to)
  /\ muHolder' = t
  /\ UNCHANGED <<pendingMuHolder, lockLocal, stLog, clientVars, sent, nframes>>
  /\ UNCHANGED <<rlFrame, lockRest, lockOthers>>

\* c.mu.Lock() by t
muLock(t, from, to) ==
  /\ lockGoto(t, from, to)
  /\ muHolder = "none"
  /\ muHolder' = t
  /\ UNCHANGED <<pendingMuHolder, lockLocal, stLog, clientVars, sent, nframes>>
  /\ UNCHANGED <<rlFrame, lockRest, lockOthers>>

\* Call, sendHandshake: id := c.seq.Add(1)
LockCallId(t) ==
  /\ lockGoto(t, "idle", "regLock")
  /\ seq' = nextId
  /\ lockLocal' = [lockLocal EXCEPT ![t].id = nextId]
  /\ UNCHANGED <<muHolder, pendingMuHolder, stLog, status, conn, done, once,
                 pending, chan, sent, nframes>>
  /\ UNCHANGED <<rlFrame, lockRest, lockOthers>>

\* c.pendingMu.Lock()
LockCallLock(t) == pendingMuLock(t, "regLock", "register")

\* c.pending[id] = ch; c.pendingMu.Unlock()
LockCallRegister(t) ==
  /\ lockGoto(t, "register", "sendLock")
  /\ pending' = pending \cup {lockLocal[t].id}
  /\ pendingMuHolder' = "none"
  /\ UNCHANGED <<muHolder, lockLocal, stLog, status, conn, done, once, chan,
                 seq, sent, nframes>>
  /\ UNCHANGED <<rlFrame, lockRest, lockOthers>>

\* The frame t hands to sendJSON.
lockRequest(t) ==
  IF t = "handshake"
    THEN [type |-> "req", id |-> lockLocal[t].id, method |-> "connect",
          params |-> connectParams("n1")]
    ELSE [type |-> "req", id |-> lockLocal[t].id, method |-> "call",
          params |-> [args |-> "params"]]

\* Where t goes on when its sendJSON has returned: Call deletes its slot
\* after an error, sendHandshake returns the error; both wait after a
\* success.
lockAfterSend(t, ok) ==
  IF ok THEN "waiting"
  ELSE IF t = "handshake" THEN "failed" ELSE "deleteLock"

\* sendJSON: c.mu.Lock(); defer c.mu.Unlock()
LockSendJSONLock(t) == muLock(t, "sendLock", "sendCheck")

\* if c.conn == nil { return "not connected" } (the deferred Unlock runs),
\* else c.conn.WriteMessage(...) is entered with c.mu held.
LockSendJSONCheck(t) ==
  /\ lpc[t] = "sendCheck"
  /\ IF conn = "nil"
       THEN /\ lpc' = [lpc EXCEPT ![t] = lockAfterSend(t, FALSE)]
            /\ muHolder' = "none"
       ELSE /\ lpc' = [lpc EXCEPT ![t] = "writing"]
            /\ UNCHANGED muHolder
  /\ UNCHANGED <<pendingMuHolder, lockLocal, stLog, clientVars, sent, nframes>>
  /\ UNCHANGED <<rlFrame, lockRest, lockOthers>>

\* c.conn.WriteMessage returns, and with it sendJSON: the deferred Unlock.
LockSendJSONWritten(t) ==
  /\ lpc[t] = "writing"
  /\ \E res \in sendJSONResults :
        IF res = "nil"
          THEN /\ sent' = sent \cup {lockRequest(t)}
               /\ lpc' = [lpc EXCEPT ![t] = lockAfterSend(t, TRUE)]
          ELSE /\ lpc' = [lpc EXCEPT ![t] = lockAfterSend(t, FALSE)]
               /\ UNCHANGED sent
  /\ muHolder' = "none"
  /\ UNCHANGED <<pendingMuHolder, lockLocal, stLog, clientVars, nframes>>
  /\ UNCHANGED <<rlFrame, lockRest, lockOthers>>

\* Call: select: case r := <-ch, case <-c.done (both return),
\* case <-time.After
LockCallWait(t) ==
  /\ lpc[t] = "waiting"
  /\ \/ /\ chan[lockLocal[t].id] # <<>>
        /\ chan' = [chan EXCEPT ![lockLocal[t].id] = Tail(@)]
        /\ lpc' = [lpc EXCEPT ![t] = "done"]
     \/ /\ done
        /\ lpc' = [lpc EXCEPT ![t] = "done"]
        /\ UNCHANGED chan
     \/ /\ lpc' = [lpc EXCEPT ![t] = "deleteLock"]
        /\ UNCHANGED chan
  /\ UNCHANGED <<muHolder, pendingMuHolder, lockLocal, stLog, status, conn,
                 done, once, pending, seq, sent, nframes>>
  /\ UNCHANGED <<rlFrame, lockRest, lockOthers>>

\* c.pendingMu.Lock() before delete(c.pending, id)
LockCallDeleteLock(t) == pendingMuLock(t, "deleteLock", "delete")

\* delete(c.pending, id); c.pendingMu.Unlock(); return
LockCallDelete(t) ==
  /\ lockGoto(t, "delete", "done")
  /\ pending' = deleteSlot(lockLocal[t].id)
  /\ pendingMuHolder' = "none"
  /\ UNCHANGED <<muHolder, lockLocal, stLog, status, conn, done, once, chan,
                 seq, sent, nframes>>
  /\ UNCHANGED <<rlFrame, lockRest, lockOthers>>

\* sendHandshake: select: case r := <-ch: setStatus(StatusConnected) for
\* hello-ok, else setStatus(StatusError) and an error; case <-time.After:
\* setStatus(StatusError) and an error; case <-c.done: an error.
LockHandshakeWait ==
  /\ lpc["handshake"] = "waiting"
  /\ \/ /\ chan[lockLocal["handshake"].id] # <<>>
        /\ chan' = [chan EXCEPT ![lockLocal["handshake"].id] = Tail(@)]
        /\ LET s == handshakeStatus(Head(chan[lockLocal["handshake"].id]))
           IN lockCallSetStatus("handshake", s,
                                IF s = StatusConnected THEN "done" ELSE "failed")
     \/ /\ lockCallSetStatus("handshake", StatusError, "failed")
        /\ UNCHANGED chan
     \/ /\ done
        /\ lpc' = [lpc EXCEPT !["handshake"] = "failed"]
        /\ UNCHANGED <<chan, lockLocal>>
  /\ UNCHANGED <<muHolder, pendingMuHolder, stLog, status, conn, done, once,
                 pending, seq, sent, nframes>>
  /\ UNCHANGED <<rlFrame, lockRest, lockOthers>>

\* The goroutine started by handleEvent:
\* if err := c.sendHandshake(nonce); err != nil { c.setStatus(StatusError) }
LockHandshakeFailed ==
  /\ lpc["handshake"] = "failed"
  /\ lockCallSetStatus("handshake", StatusError, "done")
  /\ UNCHANGED <<muHolder, pendingMuHolder, stLog, clientVars, sent, nframes>>
  /\ UNCHANGED <<rlFrame, lockRest, lockOthers>>

\* readLoop: select on c.done, then c.mu.Lock()
LockReadTop ==
  \/ /\ done
     /\ lockGoto("reader", "top", "done")
     /\ UNCHANGED <<muHolder, pendingMuHolder, lockLocal, stLog, clientVars,
                    sent, nframes>>
     /\ UNCHANGED <<rlFrame, lockRest, lockOthers>>
  \/ /\ ~done
     /\ muLock("reader", "top", "connRead")

\* conn := c.conn; c.mu.Unlock(); return when conn is nil, else
\* conn.ReadMessage() is entered
LockReadConn ==
  /\ lockGoto("reader", "connRead", IF conn = "nil" THEN "defer" ELSE "reading")
  /\ muHolder' = "none"
  /\ UNCHANGED <<pendingMuHolder, lockLocal, stLog, clientVars, sent, nframes>>
  /\ UNCHANGED <<rlFrame, lockRest, lockOthers>>

\* conn.ReadMessage() returns a response frame: handleResponse starts with
\* c.pendingMu.Lock().
LockReadFrame ==
  /\ lpc["reader"] = "reading"
  /\ conn = "open"
  /\ nframes < MaxFrames
  /\ nframes' = nframes + 1
  /\ \E f \in ResFrames :
        /\ f.id \in sentIds \cup {0}
        /\ rlFrame' = f
  /\ lpc' = [lpc EXCEPT !["reader"] = "respLock"]
  /\ UNCHANGED <<muHolder, pendingMuHolder, lockLocal, stLog, clientVars, sent>>
  /\ UNCHANGED <<lockRest, lockOthers>>

\* handleResponse: c.pendingMu.Lock()
LockResponseLock == pendingMuLock("reader", "respLock", "lookup")

\* ch, ok := c.pending[id]; delete; c.pendingMu.Unlock(); return if !ok
LockResponseLookup ==
  /\ lpc["reader"] = "lookup"
  /\ pending' = pending \ handleResponseSlot(rlFrame.id)
  /\ lpc' = [lpc EXCEPT !["reader"] =
               IF handleResponseSlot(rlFrame.id) # {} THEN "deliver" ELSE "top"]
  /\ pendingMuHolder' = "none"
  /\ UNCHANGED <<muHolder, lockLocal, stLog, status, conn, done, once, chan,
                 seq, sent, nframes>>
  /\ UNCHANGED <<rlFrame, lockRest, lockOthers>>

\* ch <- response{...}
LockResponseDeliver ==
  /\ lpc["reader"] = "deliver"
  /\ Len(chan[rlFrame.id]) < 1
  /\ chan' = [chan EXCEPT ![rlFrame.id] = Append(@, frameResponse(rlFrame))]
  /\ lpc' = [lpc EXCEPT !["reader"] = "top"]
  /\ UNCHANGED <<muHolder, pendingMuHolder, lockLocal, stLog, status, conn,
                 done, once, pending, seq, sent, nframes>>
  /\ UNCHANGED <<rlFrame, lockRest, lockOthers>>

\* conn.ReadMessage() returns an error: select on c.done, then
\* setStatus(StatusError) and rejectAllPending
LockReadError ==
  /\ lpc["reader"] = "reading"
  /\ IF done
       THEN /\ lpc' = [lpc EXCEPT !["reader"] = "done"]
            /\ UNCHANGED lockLocal
       ELSE lockCallSetStatus("reader", StatusError, "rejectLock")
  /\ UNCHANGED <<muHolder, pendingMuHolder, stLog, clientVars, sent, nframes>>
  /\ UNCHANGED <<rlFrame, lockRest, lockOthers>>

\* The deferred function of readLoop: select on c.done, then
\* setStatus(StatusError) and rejectAllPending
LockReadDefer ==
  /\ lpc["reader"] = "defer"
  /\ IF done
       THEN /\ lpc' = [lpc EXCEPT !["reader"] = "done"]
            /\ UNCHANGED lockLocal
       ELSE lockCallSetStatus("reader", StatusError, "rejectLock2")
  /\ UNCHANGED <<muHolder, pendingMuHolder, stLog, clientVars, sent, nframes>>
  /\ UNCHANGED <<rlFrame, lockRest, lockOthers>>

\* Close: c.once.Do, close(c.done), c.mu.Lock()
LockCloseEnter ==
  /\ lockGoto("closer", "idle", "connLock")
  /\ onceAdmits
  /\ once' = "running"
  /\ done' = TRUE
  /\ UNCHANGED <<muHolder, pendingMuHolder, lockLocal, stLog, status, conn,
                 pending, chan, seq, sent, nframes>>
  /\ UNCHANGED <<rlFrame, lockRest, lockOthers>>

LockCloseLock == muLock("closer", "connLock", "connClose")

\* if c.conn != nil { c.conn.Close() }; c.mu.Unlock();
\* c.setStatus(StatusDisconnected) is entered
LockCloseConn ==
  /\ lpc["closer"] = "connClose"
  /\ conn' = IF conn # "nil" THEN "closed" ELSE conn
  /\ muHolder' = "none"
  /\ lockCallSetStatus("closer", StatusDisconnected, "rejectLock")
  /\ UNCHANGED <<pendingMuHolder, stLog, status, done, once, pending, chan, seq,
                 sent, nframes>>
  /\ UNCHANGED <<rlFrame, lockRest, lockOthers>>

\* setStatus: c.mu.Lock()
LockSetStatusLock(t) == muLock(t, "statusLock", "assign")

\* changed := c.status != s; c.status = s; c.mu.Unlock()
LockSetStatusAssign(t) ==
  /\ lpc[t] = "assign"
  /\ setStatus(lockLocal[t].arg)
  /\ lpc' = [lpc EXCEPT ![t] = IF status # lockLocal[t].arg
                                  THEN "notify" ELSE lockLocal[t].ret]
  /\ muHolder' = "none"
  /\ UNCHANGED <<pendingMuHolder, lockLocal, stLog, conn, done, once, pending,
                 chan, seq, sent, nframes>>
  /\ UNCHANGED <<rlFrame, lockRest, lockOthers>>

\* if changed && c.opts.OnStatus != nil { c.opts.OnStatus(s) }, with a
\* handler registered
LockSetStatusNotify(t) ==
  /\ lpc[t] = "notify"
  /\ stLog' = Append(stLog, lockLocal[t].arg)
  /\ lpc' = [lpc EXCEPT ![t] = lockLocal[t].ret]
  /\ UNCHANGED <<muHolder, pendingMuHolder, lockLocal, clientVars, sent, nframes>>
  /\ UNCHANGED <<rlFrame, lockRest, lockOthers>>

\* What t passes to rejectAllPending at position pos.
lockReason(t, pos) ==
  IF t = "closer" THEN "client closed"
  ELSE IF pos = "reject" THEN "read error" ELSE "read loop exited"

\* rejectAllPending: c.pendingMu.Lock(); defer c.pendingMu.Unlock()
LockRejectLock(t) ==
  \/ pendingMuLock(t, "rejectLock", "reject")
  \/ pendingMuLock(t, "rejectLock2", "reject2")

\* The loop of rejectAllPending and its deferred Unlock.  Close() ends with
\* it; the read loop returns and runs its deferred function.
LockRejectAll(t) ==
  /\ lpc[t] \in {"reject", "reject2"}
  /\ rejectAllPending(lockReason(t, lpc[t]))
  /\ pendingMuHolder' = "none"
  /\ lpc' = [lpc EXCEPT ![t] =
               IF t = "reader" /\ lpc[t] = "reject" THEN "defer" ELSE "done"]
  /\ once' = IF t = "closer" THEN "done" ELSE once
  /\ UNCHANGED <<muHolder, lockLocal, stLog, status, conn, done, seq, sent,
                 nframes>>
  /\ UNCHANGED <<rlFrame, lockRest, lockOthers>>

\* One Call(), the read loop and Close(), after the handshake.
LockSpecInit ==
  /\ connectedClient /\ nframes = 0
  /\ ZeroClawInit /\ HistoryInit /\ DeviceInit /\ TunnelInit /\ ConfigInit
  /\ ExtraInit
  /\ muHolder = "none"
  /\ pendingMuHolder = "none"
  /\ lpc = [t \in LockTasks |-> IF t = "reader" THEN "top" ELSE "idle"]
  /\ lockLocal = [t \in LockTasks |-> NoLocal]
  /\ stLog = <<>>

LockNext ==
  \/ LockCallId("caller") \/ LockCallLock("caller")
  \/ LockCallRegister("caller") \/ LockSendJSONLock("caller")
  \/ LockSendJSONCheck("caller") \/ LockSendJSONWritten("caller")
  \/ LockCallWait("caller") \/ LockCallDeleteLock("caller")
  \/ LockCallDelete("caller")
  \/ LockReadTop \/ LockReadConn \/ LockReadFrame \/ LockResponseLock
  \/ LockResponseLookup \/ LockResponseDeliver \/ LockReadError
  \/ LockReadDefer
  \/ LockCloseEnter \/ LockCloseLock \/ LockCloseConn
  \/ \E t \in {"reader", "closer"} :
       \/ LockSetStatusLock(t) \/ LockSetStatusAssign(t)
       \/ LockSetStatusNotify(t)
       \/ LockRejectLock(t) \/ LockRejectAll(t)

LockSpec == LockSpecInit /\ [][LockNext]_vars

\* The writers of the socket: two Call() invocations and the handshake
\* goroutine, started after a challenge, with Close().  No frame arrives:
\* every wait ends by its timeout or by Close().
WriteSpecInit ==
  /\ handshakingClient
  /\ ZeroClawInit /\ HistoryInit /\ DeviceInit /\ TunnelInit /\ ConfigInit
  /\ ExtraInit
  /\ muHolder = "none"
  /\ pendingMuHolder = "none"
  /\ lpc = [t \in LockTasks |-> IF t = "reader" THEN "top" ELSE "idle"]
  /\ lockLocal = [t \in LockTasks |-> NoLocal]
  /\ stLog = <<>>

WriteNext ==
  \/ \E t \in LockWriters :
       \/ LockCallId(t) \/ LockCallLock(t) \/ LockCallRegister(t)
       \/ LockSendJSONLock(t) \/ LockSendJSONCheck(t)
       \/ LockSendJSONWritten(t)
  \/ \E t \in LockCallers :
       LockCallWait(t) \/ LockCallDeleteLock(t) \/ LockCallDelete(t)
  \/ LockHandshakeWait \/ LockHandshakeFailed
  \/ LockCloseEnter \/ LockCloseLock \/ LockCloseConn
  \/ \E t \in {"handshake", "closer"} :
       \/ LockSetStatusLock(t) \/ LockSetStatusAssign(t)
       \/ LockSetStatusNotify(t)
  \/ LockRejectLock("closer") \/ LockRejectAll("closer")

WriteSpec == WriteSpecInit /\ [][WriteNext]_vars

\* ---------------------------------------------------------------- tunnel
\* The config.SSH values Start is called with: ports and key path given or
\* left at their zero values.
SSHConfigs ==
  [Host : {"host"}, Port : {0, 2222}, User : {"user"},
   KeyPath : {"", "/home/user/.ssh/id"}, RemotePort : {0, 9000}]

\* The port freePort() found.
LocalPort == 40001

\* The arguments Start passes to ssh.
sshArgs(cfg) ==
  <<"-N", "-o", "StrictHostKeyChecking=accept-new",
    "-o", "ExitOnForwardFailure=yes", "-o", "ServerAliveInterval=30",
    "-o", "BatchMode=yes",
    "-L", ToString(LocalPort) \o ":127.0.0.1:"
            \o ToString(IF cfg.RemotePort = 0 THEN 18789 ELSE cfg.RemotePort),
    "-p", ToString(IF cfg.Port = 0 THEN 22 ELSE cfg.Port)>>
    \o (IF cfg.KeyPath # "" THEN <<"-i", cfg.KeyPath>> ELSE <<>>)
    \o <<cfg.User \o "@" \o cfg.Host>>

\* Tunnel.GatewayURL
GatewayURL(port) == "ws://127.0.0.1:" \o ToString(port)

tunnelRest == <<gatewayVars, zeroClawVars, historyVars, deviceVars, lockVars,
                configVars, extraVars>>

\* freePort(): on failure Start returns "finding free port".
StartFreePort ==
  /\ tpc = "idle"
  /\ \/ /\ tpc' = "spawn"
        /\ UNCHANGED tunRet
     \/ /\ tpc' = "done"
        /\ tunRet' = [tunnel |-> "nil", url |-> "", err |-> "finding free port",
                      stderr |-> ""]
  /\ UNCHANGED <<tunCfg, proc, procState, portOpen, polls, sshStderr, exitPolls, procArgs>>
  /\ UNCHANGED tunnelRest

\* exec.Command("ssh", args...); proc.Start(): on failure Start returns
\* "starting ssh".
StartProc ==
  /\ tpc = "spawn"
  /\ procArgs' = sshArgs(tunCfg)
  /\ \/ /\ proc' = "running"
        /\ tpc' = "poll"
        /\ UNCHANGED tunRet
     \/ /\ tpc' = "done"
        /\ tunRet' = [tunnel |-> "nil", url |-> "", err |-> "starting ssh",
                      stderr |-> ""]
        /\ UNCHANGED proc
  /\ UNCHANGED <<tunCfg, procState, portOpen, polls, sshStderr, exitPolls>>
  /\ UNCHANGED tunnelRest

\* ssh sets the forward up: the local port accepts connections.
SshListens ==
  /\ proc = "running"
  /\ ~portOpen
  /\ portOpen' = TRUE
  /\ UNCHANGED <<tunCfg, tpc, proc, procState, polls, sshStderr, exitPolls,
                 procArgs, tunRet>>
  /\ UNCHANGED tunnelRest

\* ssh exits by itself (authentication failed, forward refused), with a
\* message on its standard error; its port is closed.
SshExits ==
  /\ proc = "running"
  /\ tpc \in {"poll", "dial"}
  /\ proc' = "exited"
  /\ portOpen' = FALSE
  /\ sshStderr' \in {"Permission denied", "bind: Address already in use"}
  /\ exitPolls' = polls
  /\ UNCHANGED <<tunCfg, tpc, procState, polls, procArgs, tunRet>>
  /\ UNCHANGED tunnelRest

\* t.proc.ProcessState != nil: the field that Cmd.Wait() fills in.
processExited == procState # "nil"

\* The head of waitReady's loop: the deadline has passed (it cannot before
\* the first iteration and has after MaxPolls of them), or the process
\* state says the process exited, or the dial is made.
WaitReadyTop ==
  /\ tpc = "poll"
  /\ \/ /\ polls >= 1
        /\ tpc' = "failed"
        /\ tunRet' = [tunRet EXCEPT !.err = "timed out"]
     \/ /\ polls < MaxPolls
        /\ IF processExited
             THEN /\ tpc' = "failed"
                  /\ tunRet' = [tunRet EXCEPT !.err = "ssh process exited prematurely"]
             ELSE /\ tpc' = "dial"
                  /\ UNCHANGED tunRet
  /\ UNCHANGED <<tunCfg, proc, procState, portOpen, polls, sshStderr, exitPolls, procArgs>>
  /\ UNCHANGED tunnelRest

\* net.DialTimeout to the local port: on success waitReady returns nil and
\* Start the tunnel; else time.Sleep and the next iteration.
WaitReadyDial ==
  /\ tpc = "dial"
  /\ IF portOpen
       THEN /\ tpc' = "done"
            /\ tunRet' = [tunnel |-> "tunnel", url |-> GatewayURL(LocalPort),
                          err |-> "nil", stderr |-> ""]
            /\ UNCHANGED polls
       ELSE /\ tpc' = "poll"
            /\ polls' = polls + 1
            /\ UNCHANGED tunRet
  /\ UNCHANGED <<tunCfg, proc, procState, portOpen, sshStderr, exitPolls, procArgs>>
  /\ UNCHANGED tunnelRest

\* waitReady failed: proc.Process.Kill() (an error when the process has
\* exited, dropped) and the error with stderr.String().
StartFailed ==
  /\ tpc = "failed"
  /\ proc' = IF proc = "running" THEN "killed" ELSE proc
  /\ portOpen' = FALSE
  /\ tunRet' = [tunRet EXCEPT !.stderr = sshStderr]
  /\ tpc' = "done"
  /\ UNCHANGED <<tunCfg, procState, polls, sshStderr, exitPolls, procArgs>>
  /\ UNCHANGED tunnelRest

\* Tunnel.Stop on the tunnel Start returned: Kill and Wait.
TunnelStop ==
  /\ tpc = "done"
  /\ tunRet.err = "nil"
  /\ procState = "nil"
  /\ proc' = IF proc = "running" THEN "killed" ELSE proc
  /\ procState' = "exited"
  /\ portOpen' = FALSE
  /\ UNCHANGED <<tunCfg, tpc, polls, sshStderr, exitPolls, procArgs,
                 tunRet>>
  /\ UNCHANGED tunnelRest

TunnelSpecInit ==
  /\ ClientInit /\ ZeroClawInit /\ HistoryInit /\ DeviceInit /\ LockInit
  /\ ConfigInit /\ ExtraInit
  /\ tunCfg \in SSHConfigs
  /\ tpc = "idle"
  /\ proc = "none"
  /\ procState = "nil"
  /\ portOpen = FALSE
  /\ polls = 0
  /\ sshStderr = ""
  /\ exitPolls = -1
  /\ procArgs = <<>>
  /\ tunRet = NoTunnel

TunnelNext ==
  \/ StartFreePort \/ StartProc \/ SshListens \/ SshExits \/ WaitReadyTop
  \/ WaitReadyDial \/ StartFailed \/ TunnelStop

TunnelSpec == TunnelSpecInit /\ [][TunnelNext]_vars

\* ---------------------------------------------------------------- config
\* A *SSH is <<>> for nil and <<s>> for a pointer to the struct s; a YAML
\* document, the environment and the flags given are functions from the
\* names present to their values.
EnvNames ==
  {"OPENCLAW_GATEWAY_URL", "CLAWCHAT_GATEWAY", "OPENCLAW_TOKEN",
   "CLAWCHAT_SESSION", "CLAWCHAT_BACKEND", "CLAWCHAT_SSH_HOST"}

envValue(k) ==
  CASE k = "OPENCLAW_GATEWAY_URL" -> "ws://env:1"
    [] k = "CLAWCHAT_GATEWAY" -> "ws://legacy:1"
    [] k = "OPENCLAW_TOKEN" -> "envtok"
    [] k = "CLAWCHAT_SESSION" -> "envsess"
    [] k = "CLAWCHAT_BACKEND" -> "openclaw"
    [] k = "CLAWCHAT_SSH_HOST" -> "envhost"

\* The environments Load runs in: up to two variables set, or all.
Environments ==
  {[k \in S |-> envValue(k)] :
     S \in {T \in SUBSET EnvNames : Cardinality(T) <= 2 \/ T = EnvNames}}

FlagNames ==
  {"gateway", "token", "session", "backend", "ssh-host", "ssh-port",
   "ssh-user", "ssh-key", "ssh-remote-port", "version"}

flagValue(n, gw) ==
  CASE n = "gateway" -> gw
    [] n = "token" -> "flagtok"
    [] n = "session" -> "flagsess"
    [] n = "backend" -> "zeroclaw"
    [] n = "ssh-host" -> "flaghost"
    [] n = "ssh-port" -> 2200
    [] n = "ssh-user" -> "flaguser"
    [] n = "ssh-key" -> "/flag/key"
    [] n = "ssh-remote-port" -> 9100
    [] n = "version" -> TRUE

\* The command lines Load parses: up to two flags given, or all but
\* --version; --gateway with a remote URL or with the default one.
CommandLines ==
  {[n \in S |-> flagValue(n, gw)] :
     S \in {T \in SUBSET FlagNames :
              Cardinality(T) <= 2 \/ T = FlagNames \ {"version"}},
     gw \in {"ws://flag:1", "ws://localhost:18789"}}

FileSSH ==
  [host |-> "filehost", port |-> 2222, user |-> "fileuser",
   key_path |-> "/file/key", remote_port |-> 9000]

\* The config files Load finds: none, one that is not YAML, an empty
\* document, one with the top-level settings, one with a token and an ssh
\* section, one with a partial ssh section.
ConfigFiles ==
  { NoConfigFile,
    [kind |-> "unparsable", doc |-> <<>>],
    [kind |-> "yaml", doc |-> <<>>],
    [kind |-> "yaml",
     doc |-> [gateway_url |-> "ws://file:1", token |-> "filetok",
              session_key |-> "filesess", backend |-> "zeroclaw"]],
    [kind |-> "yaml", doc |-> [token |-> "filetok", ssh |-> FileSSH]],
    [kind |-> "yaml", doc |-> [ssh |-> [host |-> "filehost", user |-> "fileuser"]]] }

\* defaults()
defaults ==
  [GatewayURL |-> "ws://localhost:18789", Token |-> "", SessionKey |-> "",
   Backend |-> "openclaw", SSH |-> <<>>]

\* &SSH{}
zeroSSH == NoSSH

yamlKey(doc, k, old) == IF k \in DOMAIN doc THEN doc[k] ELSE old

\* yaml.Unmarshal(data, cfg): the keys of the document overwrite the fields.
yamlUnmarshal(doc, cfg) ==
  [GatewayURL |-> yamlKey(doc, "gateway_url", cfg.GatewayURL),
   Token |-> yamlKey(doc, "token", cfg.Token),
   SessionKey |-> yamlKey(doc, "session_key", cfg.SessionKey),
   Backend |-> yamlKey(doc, "backend", cfg.Backend),
   SSH |-> IF "ssh" \in DOMAIN doc
             THEN <<[Host |-> yamlKey(doc["ssh"], "host", ""),
                     Port |-> yamlKey(doc["ssh"], "port", 0),
                     User |-> yamlKey(doc["ssh"], "user", ""),
                     KeyPath |-> yamlKey(doc["ssh"], "key_path", ""),
                     RemotePort |-> yamlKey(doc["ssh"], "remote_port", 0)]>>
             ELSE cfg.SSH]

\* os.Getenv
Getenv(e, k) == IF k \in DOMAIN e THEN e[k] ELSE ""

\* env(keys...): the first non-empty value.
RECURSIVE env(_, _)
env(e, keys) ==
  IF keys = <<>> THEN ""
  ELSE IF Getenv(e, Head(keys)) # "" THEN Getenv(e, Head(keys))
  ELSE env(e, Tail(keys))

override(v, old) == IF v # "" THEN v ELSE old

\* Load, step 2: the environment variables.
applyEnv(e, cfg) ==
  [GatewayURL |-> override(env(e, <<"OPENCLAW_GATEWAY_URL", "CLAWCHAT_GATEWAY">>),
                           cfg.GatewayURL),
   Token |-> override(Getenv(e, "OPENCLAW_TOKEN"), cfg.Token),
   SessionKey |-> override(Getenv(e, "CLAWCHAT_SESSION"), cfg.SessionKey),
   Backend |-> override(Getenv(e, "CLAWCHAT_BACKEND"), cfg.Backend),
   SSH |-> IF Getenv(e, "CLAWCHAT_SSH_HOST") # ""
             THEN <<[(IF cfg.SSH = <<>> THEN zeroSSH ELSE cfg.SSH[1])
                       EXCEPT !.Host = Getenv(e, "CLAWCHAT_SSH_HOST")]>>
             ELSE cfg.SSH]

\* flag.String / flag.Int / flag.Bool after flag.Parse(): the value given
\* or the flag's default.
flagParsed(f, n, def) == IF n \in DOMAIN f THEN f[n] ELSE def

\* Load, step 3: the flags.
applyFlags(f, cfg) ==
  [GatewayURL |-> override(flagParsed(f, "gateway", cfg.GatewayURL), cfg.GatewayURL),
   Token |-> override(flagParsed(f, "token", cfg.Token), cfg.Token),
   SessionKey |-> override(flagParsed(f, "session", cfg.SessionKey), cfg.SessionKey),
   Backend |-> override(flagParsed(f, "backend", cfg.Backend), cfg.Backend),
   SSH |-> IF flagParsed(f, "ssh-host", "") # ""
             THEN <<[Host |-> flagParsed(f, "ssh-host", ""),
                     Port |-> flagParsed(f, "ssh-port", 22),
                     User |-> flagParsed(f, "ssh-user", ""),
                     KeyPath |-> flagParsed(f, "ssh-key", ""),
                     RemotePort |-> flagParsed(f, "ssh-remote-port", 18789)]>>
             ELSE cfg.SSH]

\* Load: the backend-specific default of the gateway URL.
backendDefaults(cfg) ==
  IF cfg.Backend = "zeroclaw"
       /\ (cfg.GatewayURL = "" \/ cfg.GatewayURL = "ws://localhost:18789")
    THEN [cfg EXCEPT !.GatewayURL = "ws://localhost:42617"]
    ELSE cfg

\* config.Load
Load ==
  /\ cfgRet.err = "pending"
  /\ cfgRet' =
       IF cfgFile.kind = "unparsable"
         THEN [cfg |-> NoConfig, err |-> "parsing config file"]
       ELSE IF flagParsed(cfgFlags, "version", FALSE)
         THEN [cfg |-> NoConfig, err |-> "exit"]
       ELSE LET fromFile == IF cfgFile.kind = "yaml"
                              THEN yamlUnmarshal(cfgFile.doc, defaults)
                              ELSE defaults
            IN [cfg |-> backendDefaults(applyFlags(cfgFlags,
                                          applyEnv(cfgEnv, fromFile))),
                err |-> "nil"]
  /\ UNCHANGED <<cfgFile, cfgEnv, cfgFlags>>
  /\ UNCHANGED <<gatewayVars, zeroClawVars, historyVars, deviceVars, lockVars,
                 tunnelVars, extraVars>>

ConfigSpecInit ==
  /\ ClientInit /\ ZeroClawInit /\ HistoryInit /\ DeviceInit /\ LockInit
  /\ TunnelInit /\ ExtraInit
  /\ cfgFile \in ConfigFiles
  /\ cfgEnv \in Environments
  /\ cfgFlags \in CommandLines
  /\ cfgRet = NoLoad

ConfigNext == Load

ConfigSpec == ConfigSpecInit /\ [][ConfigNext]_vars

\* ---------------------------------------------------------------- challenges
\* A server that sends one challenge more than the handshake goroutines the
\* other specifications provide for: handleEvent starts a goroutine for
\* each challenge it reads.
ChallengeTasks == 1..(MaxHandshakes + 1)

ChallengeInit ==
  /\ status = StatusHandshaking
  /\ conn = "open"
  /\ done = FALSE
  /\ once = "fresh"
  /\ pending = {}
  /\ chan = [i \in Ids |-> <<>>]
  /\ seq = 0
  /\ cpc = "wait"
  /\ connRet = "none"
  /\ rpc = "read"
  /\ rlFrame = NoFrame
  /\ hpc = [h \in ChallengeTasks |-> "free"]
  /\ hsId = [h \in ChallengeTasks |-> 0]
  /\ hsNonce = [h \in ChallengeTasks |-> "none"]
  /\ kpc = [k \in Callers |-> "idle"]
  /\ callId = [k \in Callers |-> 0]
  /\ callRet = [k \in Callers |-> NoRet]
  /\ xpc = "idle"
  /\ closes = 0
  /\ clpc = [p \in {"connect", "closer"} |-> "none"]
  /\ sent = {}
  /\ evRead = <<>>
  /\ evLog = <<>>
  /\ nframes = 0
  /\ rlRejected = {}
  /\ RestInit

ChallengeNext ==
  \/ ReadLoopTop \/ ReadMessage(ChallengeFrames \cup ResFrames)
  \/ handleEvent \/ handleResponse
  \/ \E h \in ChallengeTasks :
       \/ HandshakeRegister(h) \/ HandshakeSend(h) \/ HandshakeResponse(h)
       \/ HandshakeTimeout(h) \/ HandshakeFailed(h)

ChallengeSpec == ChallengeInit /\ [][ChallengeNext]_vars

\* ---------------------------------------------------------------- types
TypeOK ==
  /\ status \in {StatusDisconnected, StatusConnecting, StatusHandshaking,
                  StatusConnected, StatusError}
  /\ conn \in {"nil", "open", "closed"}
  /\ done \in BOOLEAN
  /\ once \in {"fresh", "running", "done"}
  /\ pending \subseteq Ids
  /\ seq \in 0..MaxSeq
  /\ \A i \in Ids : Len(chan[i]) <= 1

\* ================================================================ claims
\* No Call or handshake is between its registration and its return.
atRest ==
  /\ \A k \in Callers : kpc[k] \in {"idle", "done"}
  /\ \A h \in Tasks : hpc[h] \in {"free", "done"}

\* ---------------------------------------------------------------- C1
\* C1: a response frame with identifier i is delivered only into the slot of
\* the request with identifier i, and a Call returns the payload or the
\* error of a response only if that response carried the Call's identifier.
C1_ResponseToOwnCall ==
  /\ \A i \in Ids : \A n \in 1..Len(chan[i]) : chan[i][n].fid \in {0, i}
  /\ \A k \in Callers :
       kpc[k] = "done" /\ callRet[k].fid # 0 => callRet[k].fid = callId[k]

\* Two concurrent Calls with distinct identifiers have both been answered,
\* one with a payload and one with a server error.
C1_Witness ==
  /\ callId[1] # callId[2]
  /\ kpc[1] = "done" /\ callRet[1] = [payload |-> "other", err |-> "nil", fid |-> callId[1]]
  /\ kpc[2] = "done" /\ callRet[2] = [payload |-> "nil", err |-> "boom", fid |-> callId[2]]

\* ---------------------------------------------------------------- C2
\* C2: once Close() has returned the outstanding-call table is empty.  Read
\* at rest, when no Call and no handshake is in progress, which is the least
\* the claim says.
C2_TableEmptyAfterClose ==
  once = "done" /\ atRest => pending = {}

\* ---------------------------------------------------------------- C3
\* C3: after Close() has returned, the status is disconnected, in every
\* later state.
C3_DisconnectedAfterClose ==
  once = "done" => status = StatusDisconnected

\* ---------------------------------------------------------------- C4
\* A Close() returns without having run the body of the once.
closeReturnsAtOnce ==
  \/ xpc = "idle" /\ closes' = closes + 1
  \/ cpc = "wait" /\ cpc' = "done" /\ connRet' = "handshake timed out"

acceptedBy(h) ==
  /\ hpc[h] = "wait"
  /\ chan[hsId[h]] # <<>>
  /\ Head(chan[hsId[h]]) = [payload |-> "hello-ok", err |-> "nil", fid |-> hsId[h]]

\* A handshake goroutine takes the response out of its slot.
takesResponse(h) ==
  /\ hpc[h] = "wait"
  /\ chan[hsId[h]] # <<>>
  /\ chan'[hsId[h]] = <<>>

\* C5: the status becomes connected only in the step in which a handshake
\* goroutine takes, from the slot of its own connect request, a response
\* with ok = true and payload type hello-ok; a goroutine that takes any other
\* response (ok = false, or another payload type) sets the status to error.
C5_ConnectedOnlyOnHelloOk ==
  [][/\ status # StatusConnected /\ status' = StatusConnected =>
          \E h \in Tasks : acceptedBy(h) /\ takesResponse(h)
     /\ \A h \in Tasks :
          takesResponse(h) /\ ~acceptedBy(h) => status' = StatusError]_vars

\* The handshake has been accepted and Connect() has returned nil.
C5_Witness ==
  /\ status = StatusConnected
  /\ connRet = "nil"
  /\ \E h \in Tasks : hpc[h] = "done" /\ hsId[h] \notin pending

\* ---------------------------------------------------------------- C6
\* C6: when Connect() returns the timeout error, the client has been closed:
\* the once has run and the socket is closed.
C6_TimeoutClosesClient ==
  connRet = "handshake timed out" => once = "done" /\ conn = "closed"

\* ---------------------------------------------------------------- C7
\* C7: every connect request sent carries a device signature over the nonce
\* of the challenge that started it, so requests for different nonces differ.
C7_ConnectSignedOverNonce ==
  \A f \in sent :
    f.method = "connect" =>
      /\ "device" \in DOMAIN f.params
      /\ \E h \in Tasks : hsId[h] = f.id /\ f.params.device.nonce = hsNonce[h]

\* ---------------------------------------------------------------- C8
\* C8: when a read fails and Close() has not been invoked, readLoop sets the
\* status to error, and every call whose slot is in the table when readLoop
\* then fails the table gets an error: it is not left blocked (its slot holds
\* a completion), and what it returns is a non-nil error.
C8_ReadErrorFailsCalls ==
  /\ [](\A k \in Callers :
          callId[k] \in rlRejected =>
            /\ kpc[k] = "wait" => chan[callId[k]] # <<>>
            /\ kpc[k] = "done" => callRet[k].err # "nil"
            /\ callId[k] \notin pending)
  /\ [][/\ rpc = "read" /\ rpc' = "errSet" => ~done
        /\ rpc = "errSet" /\ rpc' # "errSet" => status' = StatusError
        /\ rpc = "errReject" /\ rpc' # "errReject" =>
             /\ pending' = {}
             /\ \A i \in pending : chan'[i] = <<errResponse("read error")>>]_vars

\* A call that was waiting when the read failed has returned the read error,
\* with Close() never invoked.
C8_Witness ==
  /\ once = "fresh"
  /\ rpc = "done"
  /\ status = StatusError
  /\ \E k \in Callers :
       /\ callId[k] \in rlRejected
       /\ kpc[k] = "done"
       /\ callRet[k] = errResponse("read error")

\* ---------------------------------------------------------------- C9
\* C9: once the status is error it stays error, or becomes disconnected.
C9_ErrorTerminal ==
  [][status = StatusError => status' \in {StatusError, StatusDisconnected}]_vars

\* ---------------------------------------------------------------- C10
\* The event frames read that readLoop has dispatched so far.
dispatched ==
  IF rpc = "dispatch" /\ rlFrame \in EventFrames
    THEN SubSeq(evRead, 1, Len(evRead) - 1)
    ELSE evRead

\* C10 as stated: the handler has received, once each and in the order read,
\* the event name and the payload of every event frame dispatched, unmodified.
C10_EventsVerbatim ==
  evLog = dispatched

\* What the handler is to receive for the (event, payload) fields of a frame.
C10_Handed(e) ==
  <<IF e[1].kind = "string" THEN e[1] ELSE [kind |-> "string", v |-> ""],
    IF e[2].kind = "object" THEN e[2] ELSE [kind |-> "object", v |-> "{}"]>>

\* C10 amended: the handler has received one pair for every event frame
\* dispatched, in the order read; the event name and the payload are those of
\* the frame when the name is a string and the payload an object, else the
\* empty string and the empty object stand in for them.
C10_EventsInOrder ==
  /\ Len(evLog) = Len(dispatched)
  /\ \A n \in 1..Len(evLog) : evLog[n] = C10_Handed(dispatched[n])

\* The handler has received two events, one of them with a payload that was
\* not an object.
C10_Witness ==
  /\ Len(evLog) = 2
  /\ evLog[1] # evLog[2]
  /\ \E n \in 1..2 : evRead[n][2].kind # "object"

\* ---------------------------------------------------------------- C11
\* Call k returns, in this step, an error that is its own: the error of the
\* response frame with its identifier, its timeout, or its send failure.
returnsOwnError(k) ==
  /\ kpc[k] # "done" /\ kpc'[k] = "done"
  /\ \/ callRet'[k].fid = callId[k] /\ callRet'[k].err # "nil"
     \/ callRet'[k].err \in {"timed out", "not connected", "write error"}

\* C11: a Call that ends with a server-reported failure, with its timeout or
\* with a send failure leaves the status as it was, takes no slot but its own
\* out of the table, and changes neither the position, the result nor the
\* channel of any other call; the read loop that delivers a server-reported
\* failure changes the status of nothing but the slot named in the frame.
C11_CallErrorIsLocal ==
  [][/\ \A k \in Callers :
          returnsOwnError(k) =>
            /\ status' = status
            /\ conn' = conn /\ done' = done
            /\ pending \ {callId[k]} = pending' \ {callId[k]}
            /\ \A j \in Callers \ {k} : kpc'[j] = kpc[j] /\ callRet'[j] = callRet[j]
            /\ \A i \in Ids \ {callId[k]} : chan'[i] = chan[i]
     /\ rpc = "dispatch" /\ rpc' = "top" /\ rlFrame.type = "res" =>
            /\ status' = status
            /\ pending \ {rlFrame.id} = pending' \ {rlFrame.id}
            /\ \A i \in Ids \ {rlFrame.id} : chan'[i] = chan[i]]_vars

\* One call has returned the server's error while the other, registered
\* before that, is still waiting in the table of a connected client, and the
\* response to it is the frame the read loop holds.
C11_Witness ==
  /\ status = StatusConnected
  /\ kpc[1] = "done" /\ callRet[1] = [payload |-> "nil", err |-> "boom", fid |-> callId[1]]
  /\ kpc[2] = "wait" /\ callId[2] \in pending
  /\ rpc = "dispatch" /\ rlFrame.type = "res" /\ rlFrame.id = callId[2]

\* ---------------------------------------------------------------- C12
\* C12: a Call that times out returns the timeout error with its slot out of
\* the table; a response frame whose identifier has no slot (the call timed
\* out, or the identifier is unknown) is dropped: status, table, channels and
\* every call stay as they are.
C12_TimeoutAndLateResponse ==
  [][/\ \A k \in Callers :
          kpc[k] = "wait" /\ kpc'[k] = "done" /\ callRet'[k].err = "timed out" =>
            /\ callId[k] \notin pending'
            /\ callRet'[k].payload = "nil"
     /\ rpc = "dispatch" /\ rpc' = "top" /\ rlFrame.type = "res"
          /\ rlFrame.id \notin pending =>
            UNCHANGED <<status, conn, done, pending, chan, kpc, callId, callRet>>]_vars

\* A call has timed out with its request sent, and the frame the read loop
\* has read next is the response to it, ok or not; the slot is gone.
C12_Witness ==
  /\ \E k \in Callers :
       /\ kpc[k] = "done" /\ callRet[k] = errResponse("timed out")
       /\ callId[k] \in sentIds
       /\ callId[k] \notin pending
       /\ rlFrame.type = "res" /\ rlFrame.id = callId[k]
  /\ rpc = "dispatch"

\* ---------------------------------------------------------------- C13
\* Only chunk frames have been read since the last SendMessage() reset.
onlyChunks == \A n \in 1..Len(arrived) : arrived[n].type = "chunk"

\* The concatenation of the tokens of the first k frames read since the reset.
RECURSIVE prefixText(_)
prefixText(k) ==
  IF k = 0 THEN <<>> ELSE prefixText(k - 1) \o stringOf(arrived[k].content)

\* C13: while only chunk frames have arrived since a SendMessage(), the
\* events handed over since then are one per chunk frame, and the k-th of them
\* is a chat delta whose content is the concatenation of the first k tokens.
C13_CumulativeDelta ==
  onlyChunks =>
    /\ Len(zLog) >= Len(arrived)
    /\ \A k \in 1..Len(arrived) :
         zLog[Len(zLog) - Len(arrived) + k] = chatEvent("delta", prefixText(k))
    /\ streamBuf = prefixText(Len(arrived))

\* A message was sent and two chunks with different tokens have arrived.
C13_Witness ==
  /\ sends >= 1 /\ sendRet = "zc-local"
  /\ onlyChunks
  /\ Len(arrived) = 2
  /\ arrived[1] # arrived[2]
  /\ zLog[Len(zLog)] = chatEvent("delta", <<"a", "b">>)

\* ---------------------------------------------------------------- C14
\* readLoop hands a done frame to dispatchFrame in this step.
dispatchesDone == zrpc = "dispatch" /\ zFrame.type = "done" /\ zrpc' = "top"

\* C14 as stated: a done frame emits one final event whose content is the
\* frame's full_response when the frame has one, else the accumulated buffer,
\* and leaves the accumulator empty.
C14_FinalVerbatim ==
  [][dispatchesDone =>
       /\ zLog' = Append(zLog, chatEvent("final",
                    IF zFrame.full_response.kind = "string"
                      THEN zFrame.full_response.v ELSE streamBuf))
       /\ streamBuf' = <<>>]_vars

\* C14 amended: a done frame emits one final event whose content is the
\* frame's full_response when that is a string and not empty, else the
\* accumulated buffer, and leaves the accumulator empty.
C14_FinalOrBuffer ==
  [][dispatchesDone =>
       /\ zLog' = Append(zLog, chatEvent("final",
                    IF zFrame.full_response.kind = "string"
                         /\ zFrame.full_response.v # <<>>
                      THEN zFrame.full_response.v ELSE streamBuf))
       /\ streamBuf' = <<>>]_vars

\* A chunk and then a done frame without full_response have been dispatched:
\* the final event carries the accumulated text and the accumulator is empty.
C14_Witness ==
  /\ Len(arrived) >= 2
  /\ arrived[Len(arrived) - 1].type = "chunk"
  /\ arrived[Len(arrived)] = [type |-> "done",
                              full_response |-> [kind |-> "absent", v |-> <<>>]]
  /\ zLog[Len(zLog)] = chatEvent("final", <<"a">>)
  /\ streamBuf = <<>>

\* ---------------------------------------------------------------- C15
\* C15: after Close() of the headless backend has returned, the status is
\* disconnected, in every later state.
C15_HeadlessDisconnectedAfterClose ==
  zOnce = "done" => zStatus = StatusDisconnected

\* ---------------------------------------------------------------- C16
\* The flattening of a content to text: a string as it is, a block sequence
\* as the texts of its blocks in order, blocks without a text left out.
RECURSIVE C16_Flat(_)
C16_Flat(c) ==
  IF c.kind = "string" THEN c.v
  ELSE IF c.kind # "blocks" \/ c.blocks = <<>> THEN <<>>
  ELSE LET b == c.blocks[Len(c.blocks)]
           front == [c EXCEPT !.blocks = SubSeq(c.blocks, 1, Len(c.blocks) - 1)]
       IN IF b.kind = "object" /\ b.text.kind = "string"
            THEN C16_Flat(front) \o b.text.v
            ELSE C16_Flat(front)

\* The indices of S that are at most n, in increasing order.
RECURSIVE C16_Ascending(_, _)
C16_Ascending(S, n) ==
  IF n = 0 THEN <<>>
  ELSE IF n \in S THEN Append(C16_Ascending(S, n - 1), n)
  ELSE C16_Ascending(S, n - 1)

\* C16: what GetHistory returns is, entry by entry, a selection of the
\* payload's messages in their payload order; every message selected has the
\* role user or assistant, and the entry has that role and the message's
\* content flattened to text.
C16_HistoryFiltered ==
  histRet.err = "nil" =>
    \E S \in SUBSET (1..Len(histIn.messages)) :
      LET idx == C16_Ascending(S, Len(histIn.messages))
      IN /\ Len(histRet.messages) = Len(idx)
         /\ \A n \in 1..Len(idx) :
              /\ histIn.messages[idx[n]].role \in {"user", "assistant"}
              /\ histRet.messages[n].Role = histIn.messages[idx[n]].role
              /\ histRet.messages[n].Content =
                   C16_Flat(histIn.messages[idx[n]].content)

\* GetHistory has returned two entries, the first from a string content and
\* the second from a block sequence with one block that has no text.
C16_Witness ==
  /\ histRet.err = "nil"
  /\ Len(histRet.messages) = 2
  /\ histRet.messages[1].Role = "user" /\ histRet.messages[1].Content = <<"h", "i">>
  /\ histRet.messages[2].Role = "assistant" /\ histRet.messages[2].Content = <<"a", "b">>

\* ---------------------------------------------------------------- C17
\* The deviceId of the identity is the hash of its decoded public key.
deviceIdIsHash(id) ==
  /\ base64URLDecode(id.PublicKey).ok
  /\ id.DeviceID = deviceIDFromPubKey(base64URLDecode(id.PublicKey).bytes)

\* The file holds an identity whose deviceId is not the hash of its public key.
hashMismatch(f) ==
  /\ f.kind = "json"
  /\ base64URLDecode(f.id.PublicKey).ok
  /\ f.id.DeviceID # deviceIDFromPubKey(base64URLDecode(f.id.PublicKey).bytes)

\* The identity is one this call generated: it is not the one read.
freshlyGenerated(e) ==
  /\ e.ret.err = "nil"
  /\ e.ret.id # e.read.id
  /\ \E k \in KeyIds \ StoredKeys, t \in Times : e.ret.id = newIdentity(k, t)

decodesToKey(s, n) ==
  /\ base64URLDecode(s).ok
  /\ base64URLDecode(s).bytes.len = n

\* The file holds an identity with an undecodable or wrong-length key.
malformedKeys(f) ==
  /\ f.kind = "json"
  /\ ~decodesToKey(f.id.PublicKey, 32) \/ ~decodesToKey(f.id.PrivateKey, 64)

\* C18: a call that reads a file with malformed key material (an undecodable
\* or wrong-length public or private key) does not return the stored identity
\* but a newly generated one, and no identity returned has a private key that
\* sign cannot use.
C18_MalformedKeysRegenerated ==
  \A n \in 1..Len(devLog) :
    /\ malformedKeys(devLog[n].read) => devLog[n].ret.id # devLog[n].read.id
    /\ devLog[n].ret.err = "nil" => decodesToKey(devLog[n].ret.id.PrivateKey, 64)

\* ---------------------------------------------------------------- C19
\* The persist step of the call failed.
writeFailed(e) == e.wrote \in {"mkdir failed", "write failed"}

\* What the call returned carries a warning beside the identity and the error.
warned(r) == "warning" \in DOMAIN r

\* C19: a call whose write of the identity file (or creation of its
\* directory) failed returns a nil error and an identity that satisfies
\* deviceId = hash(publicKey) and has a usable private key, and what it
\* returns reports the write failure to the caller as a warning.
C19_WriteFailureReported ==
  \A n \in 1..Len(devLog) :
    writeFailed(devLog[n]) =>
      /\ devLog[n].ret.err = "nil"
      /\ deviceIdIsHash(devLog[n].ret.id)
      /\ decodesToKey(devLog[n].ret.id.PrivateKey, 64)
      /\ warned(devLog[n].ret)

\* ---------------------------------------------------------------- C20
\* The scopes joined by commas.
commaJoined(scopes) ==
  IF scopes = <<>> THEN ""
  ELSE IF Len(scopes) = 1 THEN scopes[1]
  ELSE scopes[1] \o "," \o scopes[2]

\* v2|deviceId|clientId|clientMode|role|scopes|signedAt|token|nonce
expectedPayload(id, a, signedAt) ==
  "v2|" \o id.DeviceID \o "|cli|cli|" \o a.role \o "|" \o commaJoined(a.scopes)
    \o "|" \o ToString(signedAt) \o "|" \o a.token \o "|" \o a.nonce

\* ed25519.Verify with the identity's public key: the key is a 32-byte public
\* key and the signature is the one its pair gives for the message.
verifies(id, message, sig) ==
  /\ decodesToKey(id.PublicKey, 32)
  /\ base64URLDecode(id.PublicKey).bytes.kind = "pub"
  /\ sig = ed25519Sign(privKeyOf(base64URLDecode(id.PublicKey).bytes.key), message)

\* C20: for the identity loadOrCreate returned and any nonce, token, role and
\* scopes, sign returns a signature and signedAt without an error, and the
\* signature verifies under the identity's public key against the payload
\* v2|deviceId|cli|cli|role|scopes|signedAt|token|nonce built with that
\* signedAt.
C20_SignatureVerifies ==
  sigRet # NoSignature =>
    /\ sigRet.err = "nil"
    /\ verifies(devRet.id, expectedPayload(devRet.id, sigIn, sigRet.signedAt),
                sigRet.sig)

\* ---------------------------------------------------------------- C22
\* The read loop met a read error with c.done open (an unexpected
\* disconnect) and has set the status to error: it is past its setStatus, or
\* has ended although c.done is open.
droppedUnexpectedly ==
  \/ rpc \in {"errReject", "defer", "deferSet", "deferReject"}
  \/ rpc = "done" /\ ~done

\* C22: after an unexpected disconnect, and as long as Close() has not been
\* called, the status stays error, the socket handle is not replaced and no
\* read loop is started.
C22_NoRedialStaysError ==
  [][droppedUnexpectedly /\ ~done' =>
       /\ status' = StatusError
       /\ conn' = conn
       /\ rpc' \notin {"top", "read", "dispatch"}]_vars

\* ---------------------------------------------------------------- C23
\* The handshake life cycle with its tasks scheduled fairly: Connect(), the
\* read loop and the handshake goroutines each go on while they can (every
\* timer fires in the end).  The external caller of Close() need not act.
LiveSpec ==
  /\ Init
  /\ [][Next]_vars
  /\ WF_vars(Connect \/ readLoop(Frames) \/ \E h \in Tasks : sendHandshake(h))

\* C23: after an unexpected disconnect the client is connected again at
\* some later time, unless Close() is called.
C23_ReconnectsAfterDrop ==
  [](droppedUnexpectedly => <>(status = StatusConnected \/ done))

\* ---------------------------------------------------------------- C25
\* The steps of the status along the life cycle.
lifeCycleStep(from, to) ==
  \/ from = StatusDisconnected /\ to = StatusConnecting
  \/ from = StatusConnecting /\ to = StatusHandshaking
  \/ from = StatusHandshaking /\ to = StatusConnected

\* The step is the setStatus(StatusDisconnected) of a running Close().
closeSetsStatus == \E p \in {"connect", "closer"} : clpc[p] = "status"

\* C25: the status changes only along disconnected -> connecting ->
\* handshaking -> connected, to error, or to disconnected by Close(); it
\* becomes connected only from handshaking.
C25_StatusLifeCycle ==
  [][status' # status =>
       \/ lifeCycleStep(status, status')
       \/ status' = StatusError
       \/ status' = StatusDisconnected /\ closeSetsStatus]_vars

\* ---------------------------------------------------------------- C26
\* C26: whenever a Call or a sendHandshake has returned and no Close() is in
\* progress, the identifier it registered is no longer in the table.
C26_ReturnedLeavesNoSlot ==
  once # "running" =>
    /\ \A k \in Callers : kpc[k] = "done" => callId[k] \notin pending
    /\ \A h \in Tasks : hpc[h] \in {"failed", "done"} => hsId[h] \notin pending

\* ---------------------------------------------------------------- C27
\* C27: each slot receives at most one completion, and a delivery never
\* blocks: every slot that is in the table is empty; a completion is
\* delivered only into a slot that is in the table, and takes it out of the
\* table; an identifier that enters the table has never been in it before.
C27_OneCompletionPerSlot ==
  /\ [](\A i \in pending : chan[i] = <<>>)
  /\ [][\A i \in Ids :
          /\ Len(chan'[i]) > Len(chan[i]) => i \in pending /\ i \notin pending'
          /\ i \in pending' \ pending => i > seq]_vars

\* Two slots hold their completions at the same time: one the response the
\* read loop delivered, the other the error of Close() or of a failed read.
C27_Witness ==
  \E i, j \in Ids :
    /\ i # j
    /\ Len(chan[i]) = 1 /\ chan[i][1].fid = i
    /\ Len(chan[j]) = 1 /\ chan[j][1].err \in {"client closed", "read error"}
    /\ pending = {}

\* ---------------------------------------------------------------- C28
\* The frame the handshake backend's read loop holds is not valid JSON, not
\* an object, or has a type other than event and res.
undispatchable == rpc = "dispatch" /\ rlFrame.type \notin {"event", "res"}

\* The frame the headless read loop holds is not valid JSON, not an object,
\* or has a type dispatchFrame does not know.
zUndispatchable ==
  /\ zrpc = "dispatch"
  /\ zFrame.type \notin {"chunk", "done", "error", "tool_call", "tool_result"}

\* C28: the read loop's step on a frame that is not valid JSON, is not an
\* object or has an unknown type leaves status, socket, table, slots and the
\* event handler's log as they are and takes the loop back to its top, from
\* where it reads the next frame; the same for the headless read loop with
\* status, socket, accumulator and handler log.
C28_GarbageDropped ==
  [][/\ undispatchable /\ rpc' # rpc =>
          /\ rpc' = "top"
          /\ UNCHANGED <<status, conn, done, pending, chan, evLog>>
     /\ zUndispatchable /\ zrpc' # zrpc =>
          /\ zrpc' = "top"
          /\ UNCHANGED <<zStatus, zConn, zDone, streamBuf, zLog>>]_vars

\* Each read loop dropped its first frame and is dispatching its second: the
\* handshake backend an event, the headless backend has emitted a delta.
C28_Witness ==
  /\ nframes = 2 /\ evLog = <<>> /\ evRead # <<>> /\ rpc = "dispatch"
  /\ rlFrame.type = "event"
  /\ Len(arrived) = 2 /\ arrived[1].type \in {"ping", "not json"}
  /\ Len(zLog) = 1

\* ---------------------------------------------------------------- C30
\* The Calls and the handshake goroutines that have generated their request
\* identifier, and the identifiers generated.
callsWithId == {k \in Callers : kpc[k] # "idle"}
handshakesWithId == {h \in Tasks : hpc[h] \notin {"free", "start"}}
issuedIds == {callId[k] : k \in callsWithId} \cup {hsId[h] : h \in handshakesWithId}

\* C30: the request identifiers of the Calls and connect requests of one
\* client are pairwise distinct, and each identifier is greater than every
\* identifier generated before it.
C30_IdsDistinctIncreasing ==
  /\ [](Cardinality(issuedIds)
          = Cardinality(callsWithId) + Cardinality(handshakesWithId))
  /\ [][\A k \in callsWithId' \ callsWithId :
           \A j \in issuedIds : callId'[k] > j]_vars
  /\ [][\A h \in handshakesWithId' \ handshakesWithId :
           \A j \in issuedIds : hsId'[h] > j]_vars

\* A connect request got its identifier between those of two Calls.
C30_Witness ==
  /\ callsWithId = Callers
  /\ handshakesWithId # {}
  /\ \E h \in handshakesWithId : callId[1] < hsId[h] /\ hsId[h] < callId[2]

\* ---------------------------------------------------------------- C29
\* t is blocked in a socket read, a socket write, or the wait for a response
\* or a timer.
lockBlocked(t) == lpc[t] \in {"reading", "writing", "waiting"}

\* C29: no task holds c.mu or c.pendingMu while it is blocked in a socket
\* read, a socket write, a wait for a response or a timer.
C29_NoLockWhileBlocked ==
  \A t \in LockTasks :
    lockBlocked(t) => muHolder # t /\ pendingMuHolder # t

\* C21: Start returns a tunnel, with the endpoint ws://127.0.0.1:<port>,
\* only in a step whose dial of the local port succeeded; a Start that
\* fails after ssh was started fails with the premature-exit error when ssh
\* had exited before a readiness iteration was run, and with the timeout
\* error otherwise, and then the error carries what ssh wrote to its
\* standard error and the process is killed or has exited.
C21_exitedBeforeCheck == exitPolls >= 0 /\ polls >= exitPolls + 2

C21_StartOutcome ==
  /\ [](tpc = "done" /\ tunRet.err \notin {"nil", "finding free port", "starting ssh"}
          => /\ tunRet.err \in {"ssh process exited prematurely", "timed out"}
             /\ C21_exitedBeforeCheck
                  => tunRet.err = "ssh process exited prematurely"
             /\ tunRet.stderr = sshStderr
             /\ proc \in {"killed", "exited"})
  /\ [][tunRet'.tunnel # "nil" /\ tunRet.tunnel = "nil"
          => tpc = "dial" /\ portOpen /\ tunRet'.url = GatewayURL(LocalPort)]_vars

\* C24: after a Load that returned a configuration, every setting (gateway
\* URL, token, session key, backend, and the ssh host, port, user, key path
\* and remote port) has the value of its flag when the flag is given, else
\* of its environment variable when set, else of the config file when the
\* file has it, else the default; so a flag that is not given changes no
\* value of the file or the environment.
C24_fileHas(k) == cfgFile.kind = "yaml" /\ k \in DOMAIN cfgFile.doc

C24_fileHasSSH(k) == C24_fileHas("ssh") /\ k \in DOMAIN cfgFile.doc["ssh"]

C24_expected(flag, envKeys, key, def) ==
  IF flag \in DOMAIN cfgFlags THEN cfgFlags[flag]
  ELSE IF env(cfgEnv, envKeys) # "" THEN env(cfgEnv, envKeys)
  ELSE IF C24_fileHas(key) THEN cfgFile.doc[key]
  ELSE def

C24_expectedBackend ==
  C24_expected("backend", <<"CLAWCHAT_BACKEND">>, "backend", "openclaw")

C24_effectiveSSH ==
  IF cfgRet.cfg.SSH = <<>> THEN NoSSH ELSE cfgRet.cfg.SSH[1]

C24_sshOk(eff, flag, envKeys, key, defs) ==
  IF flag \in DOMAIN cfgFlags THEN eff = cfgFlags[flag]
  ELSE IF env(cfgEnv, envKeys) # "" THEN eff = env(cfgEnv, envKeys)
  ELSE IF C24_fileHasSSH(key) THEN eff = cfgFile.doc["ssh"][key]
  ELSE eff \in defs

C24_FlagEnvFileDefault ==
  cfgRet.err = "nil" =>
    /\ cfgRet.cfg.Backend = C24_expectedBackend
    /\ cfgRet.cfg.GatewayURL =
         C24_expected("gateway", <<"OPENCLAW_GATEWAY_URL", "CLAWCHAT_GATEWAY">>,
                      "gateway_url",
                      IF C24_expectedBackend = "zeroclaw"
                        THEN "ws://localhost:42617" ELSE "ws://localhost:18789")
    /\ cfgRet.cfg.Token = C24_expected("token", <<"OPENCLAW_TOKEN">>, "token", "")
    /\ cfgRet.cfg.SessionKey =
         C24_expected("session", <<"CLAWCHAT_SESSION">>, "session_key", "")
    /\ C24_sshOk(C24_effectiveSSH.Host, "ssh-host", <<"CLAWCHAT_SSH_HOST">>,
                 "host", {""})
    /\ C24_sshOk(C24_effectiveSSH.Port, "ssh-port", <<>>, "port", {0, 22})
    /\ C24_sshOk(C24_effectiveSSH.User, "ssh-user", <<>>, "user", {""})
    /\ C24_sshOk(C24_effectiveSSH.KeyPath, "ssh-key", <<>>, "key_path", {""})
    /\ C24_sshOk(C24_effectiveSSH.RemotePort, "ssh-remote-port", <<>>,
                 "remote_port", {0, 18789})

\* C31: a client sends at most one connect request and starts at most one
\* handshake goroutine, however many challenge events it reads.
C31_connectRequests == {f \in sent : f.method = "connect"}

C31_handshakeTasks == {h \in DOMAIN hpc : hpc[h] # "free"}

C31_SingleHandshake ==
  /\ Cardinality(C31_connectRequests) <= 1
  /\ Cardinality(C31_handshakeTasks) <= 1

\* C32: dispatching a tool_call frame emits exactly one event, a delta whose
\* content is the "[calling <name>...]" indicator; dispatching a tool_result
\* frame emits no event and leaves no indicator in the stream buffer; and
\* every delta or final emitted while the last tool frame received is a
\* tool_result is free of indicator text.
C32_hasIndicator(text) == \E i \in 1..Len(text) : text[i] = "[calling "

C32_cleared(frames) ==
  \E i \in 1..Len(frames) :
     /\ frames[i].type = "tool_result"
     /\ \A j \in (i+1)..Len(frames) : frames[j].type # "tool_call"

C32_newEvents == SubSeq(zLog', Len(zLog) + 1, Len(zLog'))

C32_dispatches(type) ==
  zrpc = "dispatch" /\ zrpc' = "top" /\ zFrame.type = type

C32_ToolIndicator ==
  /\ [](C32_cleared(arrived) => ~C32_hasIndicator(streamBuf))
  /\ [][/\ C32_dispatches("tool_call")
             => C32_newEvents = <<chatEvent("delta", toolNote(stringOf(zFrame.name)))>>
        /\ C32_dispatches("tool_result")
             => C32_newEvents = <<>> /\ ~C32_hasIndicator(streamBuf')
        /\ C32_cleared(arrived')
             => \A i \in 1..Len(C32_newEvents) :
                   C32_newEvents[i][2].state \in {"delta", "final"}
                     => ~C32_hasIndicator(C32_newEvents[i][2].message.content)]_vars

C32_Witness ==
  /\ Len(arrived) = 3
  /\ arrived[1].type = "tool_call"
  /\ arrived[2].type = "tool_result"
  /\ arrived[3].type = "chunk"
  /\ Len(zLog) = 2
  /\ zLog[2] = chatEvent("delta", stringOf(arrived[3].content))
  /\ stringOf(arrived[3].content) # <<>>

\* ---------------------------------------------------------------- C33
\* The calls of one process that tried to write the identity file.
C33_writeAttempts == {n \in 1..Len(devLog) : devLog[n].wrote \in {"ok", "write failed"}}

\* The calls of one process that returned an identity.
C33_returns == {n \in 1..Len(devLog) : devLog[n].ret.err = "nil"}

C33_stored(n) ==
  /\ n \in C33_returns
  /\ \/ devLog[n].wrote = "ok"
     \/ devLog[n].wrote = "none" /\ devLog[n].ret.id = devLog[n].read.id

C34_inSetStatus == {t \in LockTasks : lpc[t] \in {"statusLock", "assign", "notify"}}

C34_LastReportedIsStatus ==
  (C34_inSetStatus = {} /\ stLog # <<>>) => stLog[Len(stLog)] = status

\* C35: at most one task is inside WriteMessage at any time, and none is
\* while Close() closes the socket.
C35_writing == {t \in LockWriters : lpc[t] = "writing"}

C35_OneWriter ==
  /\ Cardinality(C35_writing) <= 1
  /\ lpc["closer"] = "connClose" => C35_writing = {}

\* One Call() is inside WriteMessage while the other Call(), the handshake
\* goroutine and Close() have all reached their c.mu.Lock().
C35_Witness ==
  /\ lpc["caller"] = "writing"
  /\ lpc["caller2"] = "sendLock"
  /\ lpc["handshake"] = "sendLock"
  /\ lpc["closer"] = "connLock"

\* C36: at most one task of the headless backend is inside WriteMessage at
\* any time, and none is in the step in which Close() closes the socket.
C36_writing == {s \in Senders : zSenders[s].pc = "writing"}

C36_OneWriter ==
  /\ [](Cardinality(C36_writing) <= 1)
  /\ [][(zConn = "open" /\ zConn' = "closed") => C36_writing = {}]_vars

\* The concatenation of the tokens of the chunk frames among the first k
\* frames dispatched since the last SendMessage().
RECURSIVE C37_tokens(_)
C37_tokens(k) ==
  IF k = 0 THEN <<>>
  ELSE IF arrived[k].type = "chunk"
         THEN C37_tokens(k - 1) \o stringOf(arrived[k].content)
         ELSE C37_tokens(k - 1)

\* C37: when the first done frame after a SendMessage() has no
\* full_response, the final event's content is the concatenation of the
\* tokens of the chunk frames received since that SendMessage(), also with
\* tool_call and tool_result frames among them.
C37_FinalIsAllTokens ==
  [][(/\ dispatchesDone
      /\ sends >= 1
      /\ stringOf(zFrame.full_response) = <<>>
      /\ \A n \in 1..Len(arrived) : arrived[n].type \notin {"done", "error"})
        => /\ Len(zLog') = Len(zLog) + 1
           /\ zLog'[Len(zLog')] = chatEvent("final", C37_tokens(Len(arrived)))]_vars

\* Connect() returns an error in this step.
C38_connectFails == cpc # "done" /\ cpc' = "done" /\ connRet' # "nil"

\* C38: when Connect() returns an error the status is error or
\* disconnected, the client holds no open socket and no read loop is
\* running.
C38_FailedConnectCleansUp ==
  [][C38_connectFails
       => /\ status' \in {StatusError, StatusDisconnected}
          /\ conn' # "open"
          /\ rpc' \in {"idle", "done"}]_vars

\* The user and assistant messages of the payload, by index.
C39_userAssistant ==
  {n \in 1..Len(histIn.messages) : histIn.messages[n].role \in {"user", "assistant"}}

\* Those of them whose content flattens to a text that is not empty.
C39_withText ==
  {n \in C39_userAssistant : C16_Flat(histIn.messages[n].content) # <<>>}

\* C39 as stated: GetHistory returns one entry for every user or assistant
\* message of the payload, so the result is as long as the payload has
\* user and assistant messages.
C39_OnePerMessage ==
  histRet.err = "nil" => Len(histRet.messages) = Cardinality(C39_userAssistant)

\* C39, amended: GetHistory returns one entry for every user or assistant
\* message of the payload whose flattened content is not empty, in payload
\* order, and no other entry.
C39_OnePerTextMessage ==
  histRet.err = "nil" =>
    LET idx == C16_Ascending(C39_withText, Len(histIn.messages))
    IN /\ Len(histRet.messages) = Len(idx)
       /\ \A n \in 1..Len(idx) :
            /\ histRet.messages[n].Role = histIn.messages[idx[n]].role
            /\ histRet.messages[n].Content = C16_Flat(histIn.messages[idx[n]].content)

\* The payload has a user message with an empty content before an assistant
\* message with a text, and GetHistory has returned the second only.
C39_Witness ==
  /\ histRet.err = "nil"
  /\ Len(histIn.messages) = 2
  /\ histIn.messages[1].role = "user"
  /\ C16_Flat(histIn.messages[1].content) = <<>>
  /\ histIn.messages[2].role = "assistant"
  /\ Len(histRet.messages) = 1
  /\ histRet.messages[1].Role = "assistant"

\* The event that waitForEvent has taken from the channel and Update has
\* not processed yet.
C40_inFlight == IF uiMsg = NoChatEvent THEN <<>> ELSE <<uiMsg>>

\* C40: every chat event handed to the OnEvent callback reaches
\* handleChatEvent, in the order handed over: the events processed, the one
\* in flight and those in the channel are the events handed over; and when
\* all of them are processed and the last was a final or error event, the
\* streaming buffer of the UI is empty.
C40_EveryEventProcessed ==
  /\ uiSeen \o C40_inFlight \o uiChan = uiHanded
  /\ (/\ uiChan = <<>> /\ uiMsg = NoChatEvent /\ uiHanded # <<>>
      /\ uiState = "waiting"
      /\ uiHanded[Len(uiHanded)].State \in {"final", "error"})
       => uiStreamBuf = <<>>

====
